---- MODULE Spec2Model ----
(***************************************************************************)
(* PanicTrader back-tester and parameter sweep.                            *)
(*                                                                         *)
(* Two parts are modelled.                                                 *)
(*                                                                         *)
(*  1. One back-test run, tick by tick, in the four variants the           *)
(*     repository holds:                                                   *)
(*       "lib" Backtester.cpp runBacktest (returns the cash only),         *)
(*       "v1"  the grid-search runBacktest with the inlined strategy       *)
(*             (part_001:766),                                             *)
(*       "st"  the grid-search runBacktest calling getOrdersWithParams,    *)
(*             which keeps the previous-tick flag in a function static     *)
(*             (part_003:338, part_003:490),                               *)
(*       "sa"  the statistical-arbitrage run_backtest (part_004:388).      *)
(*  2. The parallel sweep, in its two schedulers: the atomic-cursor        *)
(*     fuzzer (FuzzerMain.cpp) and the pre-partitioned grid search that    *)
(*     merges into a priority queue (part_001:1036, part_003:661).         *)
(*                                                                         *)
(* Numbers.  Prices are integers in tenths of a currency unit.  A mid      *)
(* price m is carried as 2*m = bid+ask and a rolling average over a window *)
(* of N mid prices as the sum of bid+ask over the window, i.e. 2*N times   *)
(* the average; a threshold th is compared as th*2*N.  Cash and fees are   *)
(* carried times 1000, so that the fee rate 0.002 is the integer 2.  All   *)
(* comparisons of the source are thereby exact integer comparisons.        *)
(***************************************************************************)
EXTENDS Integers, Sequences, FiniteSets, Bags, TLC

(***************************************************************************)
(* Program constants                                                       *)
(***************************************************************************)
HIGH_SPREAD_THRESHOLD == 13
POSITION_SIZE == 100
POSITION_LIMIT == 100
FEES == 2
FEE_DENOM == 1000
TOP_K == 10

(***************************************************************************)
(* Bounds of the model                                                     *)
(***************************************************************************)
MaxTicks == 5
MaxWorkers == 2

\* quiet_NaN of an average: window sums of positive prices are positive
NaN == -1

Abs(x) == IF x < 0 THEN -x ELSE x

(***************************************************************************)
(* Input domains                                                           *)
(***************************************************************************)
BidLevels == {95, 105}
Spreads == {10, 14}
DiffLevels == {-5, 5}

\* ticks of the UEC series: bid, ask (diff is not read by these variants)
PriceTicks == {[bid |-> b, ask |-> b + s, diff |-> 0] : b \in BidLevels, s \in Spreads}

\* ticks of the VP series: diff is 2 * (vp mid price - expected vp price)
ArbTicks == {[bid |-> b, ask |-> b + 10, diff |-> d] : b \in BidLevels, d \in DiffLevels \cup {0}}

ParameterSets ==
    {[short_window |-> sw, waiting_period |-> wp,
      hs_exit_change_threshold |-> hsx, ma_turn_threshold |-> mat] :
        sw \in {1, 2}, wp \in {1, 2}, hsx \in {2}, mat \in {3, 20}}

FuzzParams ==
    {[rolling_avg_window |-> w, positive_diff_ma_threshold |-> 3,
      negative_diff_ma_threshold |-> -3, fixed_order_quantity |-> q] :
        w \in {1, 2}, q \in {60, 100}}

Variants == {"lib", "v1", "st", "sa"}

TicksOf(v) == IF v = "sa" THEN ArbTicks ELSE PriceTicks
ParamsOf(v) == IF v = "sa" THEN FuzzParams ELSE ParameterSets

(***************************************************************************)
(* Derived tick quantities                                                 *)
(***************************************************************************)
\* 2 * mid_price
Mid2(t) == t.bid + t.ask
Spread(t) == t.ask - t.bid
InHighSpread(t) == Spread(t) >= HIGH_SPREAD_THRESHOLD

RECURSIVE SumRange(_, _, _)
SumRange(arr, lo, hi) == IF lo > hi THEN 0 ELSE arr[lo] + SumRange(arr, lo + 1, hi)

\* Backtester.cpp: sum of the last N elements (N times the mean); the caller
\* guards arr.size() >= N
mean_of_last_N(arr, N) == SumRange(arr, Len(arr) - N + 1, Len(arr))

\* grid search: window ending at the 0-based endIndex; NaN when the window
\* starts before index 0, otherwise windowSize times the mean
\* a window that starts one element too early
computeRollingAverage_wide(midPrices, endIndex, windowSize) ==
    LET startIndex == endIndex - windowSize
    IN  IF startIndex < 0 THEN NaN
        ELSE SumRange(midPrices, startIndex + 1, endIndex + 1)

computeRollingAverage(midPrices, endIndex, windowSize) ==
    LET startIndex == endIndex - windowSize + 1
    IN  IF startIndex < 0 THEN NaN
        ELSE SumRange(midPrices, startIndex + 1, endIndex + 1)

\* the 0-based indices the loop of mean_of_last_N reads: sz - N .. sz - 1
MeanReads(sz, N) == (sz - N)..(sz - 1)

\* the 0-based indices the loop of computeRollingAverage reads
RollingReads(endIndex, windowSize) ==
    LET startIndex == endIndex - windowSize + 1
    IN  IF startIndex < 0 THEN {} ELSE startIndex..endIndex

(***************************************************************************)
(* State of one run: the locals of runBacktest / StrategyState / Ledger    *)
(***************************************************************************)
InitRun ==
    [i |-> 0,
     midPrices |-> << >>,
     in_position |-> FALSE,
     position_is_long |-> FALSE,
     waiting_for_signal |-> FALSE,
     high_spread_exit_index |-> -1,
     last_high_spread_exit_short_avg |-> 0,
     current_position_extreme |-> 0,
     prev_in_high_spread |-> FALSE,
     position |-> 0,
     cash |-> 0,
     total_fees |-> 0,
     order_quantity |-> 0,
     filled |-> 0,
     short_avg |-> NaN,
     difference_history |-> << >>]

\* scale of an average held as a window sum: 2 * short_window
Scale(p) == 2 * p.short_window

(***************************************************************************)
(* Strategy checks                                                         *)
(***************************************************************************)
\* a close that sells or buys back half of the position
CloseState_half(r) ==
    [r EXCEPT !.order_quantity = -(r.position \div 2),
              !.in_position = FALSE,
              !.position_is_long = FALSE,
              !.current_position_extreme = 0]

CloseState(r) ==
    [r EXCEPT !.order_quantity = -r.position,
              !.in_position = FALSE,
              !.position_is_long = FALSE,
              !.current_position_extreme = 0]

\* a turn check against the average at entry: the extreme is never moved
TurnExit_stale(r, p, short_avg) ==
    IF short_avg = NaN \/ ~r.in_position THEN r
    ELSE IF r.position_is_long
         THEN IF r.current_position_extreme - short_avg >= p.ma_turn_threshold * Scale(p)
              THEN CloseState(r)
              ELSE r
         ELSE IF short_avg - r.current_position_extreme >= p.ma_turn_threshold * Scale(p)
              THEN CloseState(r)
              ELSE r

\* 0) in a position: track the extreme of the short average, exit on a turn
TurnExit(r, p, short_avg) ==
    IF short_avg = NaN \/ ~r.in_position THEN r
    ELSE IF r.position_is_long
         THEN IF short_avg > r.current_position_extreme
              THEN [r EXCEPT !.current_position_extreme = short_avg]
              ELSE IF r.current_position_extreme - short_avg >= p.ma_turn_threshold * Scale(p)
                   THEN CloseState(r)
                   ELSE r
         ELSE IF short_avg < r.current_position_extreme
              THEN [r EXCEPT !.current_position_extreme = short_avg]
              ELSE IF short_avg - r.current_position_extreme >= p.ma_turn_threshold * Scale(p)
                   THEN CloseState(r)
                   ELSE r

\* a detection of the tick that enters high spread instead
JustExitedHS_entered(last_in_high_spread, hs) == ~last_in_high_spread /\ hs

\* 1) the previous tick was high-spread and this one is not
JustExitedHS(last_in_high_spread, hs) == last_in_high_spread /\ ~hs

RecordExit(r, p, exit_index, short_avg, mid2) ==
    [r EXCEPT !.high_spread_exit_index = exit_index,
              !.last_high_spread_exit_short_avg =
                  IF short_avg # NaN THEN short_avg ELSE mid2 * p.short_window,
              !.waiting_for_signal = TRUE]

\* an entry check that waits for no exit from high spread
EntryGuard_eager(r, p, index, hs) == r.position = 0 /\ ~hs

\* an entry check that does not ask for the signal
EntryGuard_unarmed(r, p, index, hs) ==
    /\ index - r.high_spread_exit_index >= p.waiting_period
    /\ r.position = 0
    /\ ~hs

\* 2) the guard of the entry check
EntryGuard(r, p, index, hs) ==
    /\ r.waiting_for_signal
    /\ index - r.high_spread_exit_index >= p.waiting_period
    /\ r.position = 0
    /\ ~hs

\* an entry that sells above the average and buys below it
EntryBody_reversed(r, p, short_avg, mid2) ==
    IF short_avg = NaN THEN r
    ELSE LET delta == Abs(short_avg - r.last_high_spread_exit_short_avg)
             m == mid2 * p.short_window
         IN  IF delta >= p.hs_exit_change_threshold * Scale(p)
             THEN IF m < short_avg
                  THEN [r EXCEPT !.order_quantity = POSITION_SIZE,
                                 !.in_position = TRUE,
                                 !.position_is_long = TRUE,
                                 !.current_position_extreme = short_avg,
                                 !.waiting_for_signal = FALSE]
                  ELSE IF m > short_avg
                       THEN [r EXCEPT !.order_quantity = -POSITION_SIZE,
                                      !.in_position = TRUE,
                                      !.position_is_long = FALSE,
                                      !.current_position_extreme = short_avg,
                                      !.waiting_for_signal = FALSE]
                       ELSE [r EXCEPT !.waiting_for_signal = FALSE]
             ELSE r

\* an entry that leaves the signal armed
EntryBody_armed(r, p, short_avg, mid2) ==
    IF short_avg = NaN THEN r
    ELSE LET delta == Abs(short_avg - r.last_high_spread_exit_short_avg)
             m == mid2 * p.short_window
         IN  IF delta >= p.hs_exit_change_threshold * Scale(p)
             THEN IF m > short_avg
                  THEN [r EXCEPT !.order_quantity = POSITION_SIZE,
                                 !.in_position = TRUE,
                                 !.position_is_long = TRUE,
                                 !.current_position_extreme = short_avg]
                  ELSE IF m < short_avg
                       THEN [r EXCEPT !.order_quantity = -POSITION_SIZE,
                                      !.in_position = TRUE,
                                      !.position_is_long = FALSE,
                                      !.current_position_extreme = short_avg]
                       ELSE r
             ELSE r

\* an entry check that stays armed when the mid price sits on the average
EntryBody_patient(r, p, short_avg, mid2) ==
    IF short_avg = NaN THEN r
    ELSE LET delta == Abs(short_avg - r.last_high_spread_exit_short_avg)
             m == mid2 * p.short_window
         IN  IF delta >= p.hs_exit_change_threshold * Scale(p)
             THEN IF m > short_avg
                  THEN [r EXCEPT !.order_quantity = POSITION_SIZE,
                                 !.in_position = TRUE,
                                 !.position_is_long = TRUE,
                                 !.current_position_extreme = short_avg,
                                 !.waiting_for_signal = FALSE]
                  ELSE IF m < short_avg
                       THEN [r EXCEPT !.order_quantity = -POSITION_SIZE,
                                      !.in_position = TRUE,
                                      !.position_is_long = FALSE,
                                      !.current_position_extreme = short_avg,
                                      !.waiting_for_signal = FALSE]
                       ELSE r
             ELSE r

\* 2) the body of the entry check
EntryBody(r, p, short_avg, mid2) ==
    IF short_avg = NaN THEN r
    ELSE LET delta == Abs(short_avg - r.last_high_spread_exit_short_avg)
             m == mid2 * p.short_window
         IN  IF delta >= p.hs_exit_change_threshold * Scale(p)
             THEN IF m > short_avg
                  THEN [r EXCEPT !.order_quantity = POSITION_SIZE,
                                 !.in_position = TRUE,
                                 !.position_is_long = TRUE,
                                 !.current_position_extreme = short_avg,
                                 !.waiting_for_signal = FALSE]
                  ELSE IF m < short_avg
                       THEN [r EXCEPT !.order_quantity = -POSITION_SIZE,
                                      !.in_position = TRUE,
                                      !.position_is_long = FALSE,
                                      !.current_position_extreme = short_avg,
                                      !.waiting_for_signal = FALSE]
                       ELSE [r EXCEPT !.waiting_for_signal = FALSE]
             ELSE r

\* a forced close that leaves short positions open
ForcedCloseGuard_long(r, hs) == hs /\ r.position > 0

\* 3) high spread with an open position
ForcedCloseGuard(r, hs) == hs /\ r.position # 0

(***************************************************************************)
(* Ledger                                                                  *)
(***************************************************************************)
\* a ledger that fills a breaching order up to the limit
LimitCheck_partial(position, order) ==
    IF order > 0 /\ position + order > POSITION_LIMIT THEN POSITION_LIMIT - position
    ELSE IF order < 0 /\ position + order < -POSITION_LIMIT THEN -POSITION_LIMIT - position
    ELSE order

\* a ledger without the position-limit check
LimitCheck_none(position, order) == order

\* the order after the position-limit check: discarded whole on a breach
LimitCheck(position, order) ==
    IF order > 0 /\ position + order > POSITION_LIMIT THEN 0
    ELSE IF order < 0 /\ position + order < -POSITION_LIMIT THEN 0
    ELSE order

\* fees charged per unit, whatever the price
FeesOf_flat(v, price, qty) ==
    IF v \in {"v1", "st"} THEN qty * FEES ELSE 0

\* fees booked with the wrong sign
FeesOf_negated(v, price, qty) ==
    IF v \in {"v1", "st"} THEN -(price * qty * FEES) ELSE 0

\* the fees booked for a fill; Backtester.cpp and run_backtest keep no total
FeesOf(v, price, qty) ==
    IF v \in {"v1", "st"} THEN price * qty * FEES ELSE 0

ApplyOrder(v, r, t) ==
    LET actual_order == LimitCheck(r.position, r.order_quantity)
    IN  IF actual_order > 0
        THEN [r EXCEPT !.cash = r.cash - t.ask * actual_order * (FEE_DENOM + FEES),
                       !.total_fees = r.total_fees + FeesOf(v, t.ask, actual_order),
                       !.position = r.position + actual_order,
                       !.filled = actual_order]
        ELSE IF actual_order < 0
        THEN [r EXCEPT !.cash = r.cash + t.bid * (-actual_order) * (FEE_DENOM - FEES),
                       !.total_fees = r.total_fees + FeesOf(v, t.bid, -actual_order),
                       !.position = r.position + actual_order,
                       !.filled = actual_order]
        ELSE [r EXCEPT !.filled = 0]

(***************************************************************************)
(* One tick of each variant.  last is the previous-tick high-spread flag   *)
(* the variant reads; the result holds the run's locals after the tick and *)
(* the flag as the tick leaves it.                                         *)
(***************************************************************************)
\* Backtester.cpp:103-256.  The averages are taken over the history before
\* this tick's mid price is appended by update_history.
LibTick(p, r, t, last) ==
    LET m2 == Mid2(t)
        hs == InHighSpread(t)
        s_avg == IF Len(r.midPrices) >= p.short_window
                 THEN mean_of_last_N(r.midPrices, p.short_window)
                 ELSE NaN
        r0 == [r EXCEPT !.order_quantity = 0, !.short_avg = s_avg]
        r1 == TurnExit(r0, p, s_avg)
        r2 == IF r.i > 0 /\ JustExitedHS(last, hs)
              THEN RecordExit(r1, p, r.i - 1, s_avg, m2)
              ELSE IF EntryGuard(r1, p, r.i, hs)
                   THEN EntryBody(r1, p, s_avg, m2)
                   ELSE IF ForcedCloseGuard(r1, hs) THEN CloseState(r1) ELSE r1
        r3 == ApplyOrder("lib", r2, t)
    IN  [run |-> [r3 EXCEPT !.midPrices = Append(r.midPrices, m2),
                            !.prev_in_high_spread = hs,
                            !.i = r.i + 1],
         flag |-> hs]

\* part_001:800-945.  The mid price is stored first; a tick whose average is
\* undefined is skipped whole by `continue`, the previous-tick flag included.
V1Tick(p, r, t, last) ==
    LET m2 == Mid2(t)
        hs == InHighSpread(t)
        mids == Append(r.midPrices, m2)
        short_avg == computeRollingAverage(mids, r.i, p.short_window)
        r0 == [r EXCEPT !.order_quantity = 0, !.short_avg = short_avg,
                        !.filled = 0, !.midPrices = mids, !.i = r.i + 1]
        r1 == TurnExit(r0, p, short_avg)
        r2 == IF JustExitedHS(last, hs)
              THEN RecordExit(r1, p, r.i, short_avg, m2)
              ELSE r1
        r3 == IF EntryGuard(r2, p, r.i, hs) THEN EntryBody(r2, p, short_avg, m2) ELSE r2
        r4 == IF ForcedCloseGuard(r3, hs) THEN CloseState(r3) ELSE r3
        r5 == ApplyOrder("v1", r4, t)
    IN  IF short_avg = NaN
        THEN [run |-> r0, flag |-> last]
        ELSE [run |-> [r5 EXCEPT !.prev_in_high_spread = hs], flag |-> hs]

\* part_003:338-487 and 522-573.  The previous-tick flag is the function
\* static prev_in_high_spread, read and overwritten on every call.
StTick(p, r, t, last) ==
    LET m2 == Mid2(t)
        hs == InHighSpread(t)
        mids == Append(r.midPrices, m2)
        short_avg == computeRollingAverage(mids, r.i, p.short_window)
        r0 == [r EXCEPT !.order_quantity = 0, !.short_avg = short_avg,
                        !.filled = 0, !.midPrices = mids, !.i = r.i + 1]
        r1 == TurnExit(r0, p, short_avg)
        r2 == IF JustExitedHS(last, hs)
              THEN RecordExit(r1, p, r.i - 1, short_avg, m2)
              ELSE r1
        r3 == IF EntryGuard(r2, p, r.i, hs) THEN EntryBody(r2, p, short_avg, m2) ELSE r2
        r4 == IF ForcedCloseGuard(r3, hs) THEN CloseState(r3) ELSE r3
        r5 == ApplyOrder("st", r4, t)
    IN  [run |-> r5, flag |-> hs]

\* part_004:158-241 TradingAlgorithm::getOrders, the order for VP
ArbOrder(p, hist) ==
    IF Len(hist) < p.rolling_avg_window THEN 0
    ELSE LET sum_diff == SumRange(hist, 1, Len(hist))
         IN  IF sum_diff > p.positive_diff_ma_threshold * Len(hist)
             THEN -p.fixed_order_quantity
             ELSE IF sum_diff < p.negative_diff_ma_threshold * Len(hist)
                  THEN p.fixed_order_quantity
                  ELSE 0

\* part_004:428-475
SaTick(p, r, t, last) ==
    LET valid == t.bid > 0 /\ t.ask > 0
        pushed == Append(r.difference_history, t.diff)
        hist == IF ~valid THEN r.difference_history
                ELSE IF Len(pushed) > p.rolling_avg_window /\ p.rolling_avg_window > 0
                     THEN Tail(pushed)
                     ELSE pushed
        order == IF valid THEN ArbOrder(p, hist) ELSE 0
        r0 == [r EXCEPT !.order_quantity = order, !.difference_history = hist,
                        !.i = r.i + 1]
    IN  [run |-> ApplyOrder("sa", r0, t), flag |-> last]

TickStep(v, p, r, t, last) ==
    IF v = "lib" THEN LibTick(p, r, t, last)
    ELSE IF v = "v1" THEN V1Tick(p, r, t, last)
    ELSE IF v = "st" THEN StTick(p, r, t, last)
    ELSE SaTick(p, r, t, last)

(***************************************************************************)
(* Final close after the last tick                                         *)
(***************************************************************************)
\* a final close that trades both sides at the bid
FinalFlatten_bid(v, r, t) ==
    LET newpos == IF v \in {"v1", "st"} THEN 0 ELSE r.position
    IN  IF r.position > 0
        THEN [r EXCEPT !.cash = r.cash + t.bid * r.position * (FEE_DENOM - FEES),
                       !.total_fees = r.total_fees + FeesOf(v, t.bid, r.position),
                       !.position = newpos]
        ELSE IF r.position < 0
        THEN [r EXCEPT !.cash = r.cash - t.bid * (-r.position) * (FEE_DENOM + FEES),
                       !.total_fees = r.total_fees + FeesOf(v, t.bid, -r.position),
                       !.position = newpos]
        ELSE r

\* part_001:955-982, part_003:583-605 book the fill and zero the position;
\* Backtester.cpp:258-267 and part_004:477-489 book the cash only
FinalFlatten(v, r, t) ==
    LET newpos == IF v \in {"v1", "st"} THEN 0 ELSE r.position
    IN  IF r.position > 0
        THEN [r EXCEPT !.cash = r.cash + t.bid * r.position * (FEE_DENOM - FEES),
                       !.total_fees = r.total_fees + FeesOf(v, t.bid, r.position),
                       !.position = newpos]
        ELSE IF r.position < 0
        THEN [r EXCEPT !.cash = r.cash - t.ask * (-r.position) * (FEE_DENOM + FEES),
                       !.total_fees = r.total_fees + FeesOf(v, t.ask, -r.position),
                       !.position = newpos]
        ELSE r

\* the flag read by the next tick: the static for "st", the local otherwise
LastFlag(v, r, static_flag) == IF v = "st" THEN static_flag ELSE r.prev_in_high_spread

\* the whole run as a function of its inputs and of the static it starts with
RECURSIVE RunTicks(_, _, _, _, _, _)
RunTicks(v, p, r, series, k, static_flag) ==
    IF k > Len(series)
    THEN IF Len(series) = 0 THEN r ELSE FinalFlatten(v, r, series[Len(series)])
    ELSE LET s == TickStep(v, p, r, series[k], LastFlag(v, r, static_flag))
         IN  RunTicks(v, p, s.run, series, k + 1, IF v = "st" THEN s.flag ELSE static_flag)

runBacktest(v, p, series, static_flag) == RunTicks(v, p, InitRun, series, 1, static_flag)

(***************************************************************************)
(* Variables                                                               *)
(***************************************************************************)
VARIABLES
    variant,                \* which runBacktest the process is built from
    params,                 \* the ParameterSet of the current run
    nrows,                  \* priceData.size()
    priceData,              \* the ticks read so far, priceData[0..i-1]
    run,                    \* the locals of the current run
    prev_in_high_spread,    \* part_003:362 function static
    pc,                     \* "loop" | "done"
    \* --- the sweep ---
    sched,                  \* "none" | "fuzz" (FuzzerMain.cpp) | "grid" (part_001:1113)
    g_series,               \* the loaded price series
    g_combos,               \* the grid: g_combos / allParamSets
    pnlTable,               \* per cell: the pnl runBacktest returns for it
    numThreads,             \* number of worker threads
    workers,                \* per worker: pc, claimed index, result in hand
    mutex,                  \* g_resMutex / resultMutex: FREE or the holder
    g_nextIdx,              \* atomic cursor of the fuzzer
    g_doneCount,            \* g_doneCount / completedTasks
    runningTasks,           \* part_001:647
    g_results,              \* result slots of the fuzzer
    bestResults,            \* part_001:645 priority queue, as the bag of its elements
    reporter,               \* progress thread / monitor loop of main
    finalTop,               \* the final ranking printed
    evalCount,              \* per cell: number of runBacktest calls (history)
    prevFinal,              \* final ranking of the previous sweep (history)
    \* --- main before the threads start ---
    gen                     \* FuzzerMain.cpp:248-276: the locals of main while it builds g_combos

runVars == <<variant, params, nrows, priceData, run, prev_in_high_spread, pc>>

sweepVars == <<sched, g_series, g_combos, pnlTable, numThreads, workers, mutex, g_nextIdx,
               g_doneCount, runningTasks, g_results, bestResults, reporter,
               finalTop, evalCount, prevFinal>>

genVars == <<gen>>

vars == <<runVars, sweepVars, genVars>>

\* mutex holders: a worker index 0..numThreads-1, or
FREE == -1
REPORTER == -2
NoFinal == << >>

\* main is not building a grid
NoGen == gen = [pc |-> "off"]

\* the sweep part while a single run is studied
NoSweep ==
    /\ sched = "none"
    /\ g_series = << >>
    /\ g_combos = << >>
    /\ pnlTable = << >>
    /\ numThreads = 0
    /\ workers = << >>
    /\ mutex = FREE
    /\ g_nextIdx = 0
    /\ g_doneCount = 0
    /\ runningTasks = 0
    /\ g_results = << >>
    /\ bestResults = EmptyBag
    /\ reporter = [pc |-> "off"]
    /\ finalTop = NoFinal
    /\ evalCount = << >>
    /\ prevFinal = NoFinal

(***************************************************************************)
(* One run of runBacktest, and the next call in the same process           *)
(***************************************************************************)
Init ==
    /\ variant \in Variants
    /\ params \in ParamsOf(variant)
    /\ nrows \in 0..MaxTicks
    /\ priceData = << >>
    /\ run = InitRun
    /\ prev_in_high_spread = FALSE
    /\ pc = "loop"
    /\ NoSweep
    /\ NoGen

\* a time loop that runs one iteration past the end of the series
Tick_past_end ==
    /\ pc = "loop"
    /\ run.i <= nrows
    /\ \E t \in TicksOf(variant) :
         LET s == TickStep(variant, params, run, t, LastFlag(variant, run, prev_in_high_spread))
         IN  /\ run' = s.run
             /\ prev_in_high_spread' = IF variant = "st" THEN s.flag ELSE prev_in_high_spread
             /\ priceData' = Append(priceData, t)
    /\ UNCHANGED <<variant, params, nrows, pc>>
    /\ UNCHANGED <<sweepVars, genVars>>

\* one iteration of the time loop
Tick ==
    /\ pc = "loop"
    /\ run.i < nrows
    /\ \E t \in TicksOf(variant) :
         LET s == TickStep(variant, params, run, t, LastFlag(variant, run, prev_in_high_spread))
         IN  /\ run' = s.run
             /\ prev_in_high_spread' = IF variant = "st" THEN s.flag ELSE prev_in_high_spread
             /\ priceData' = Append(priceData, t)
    /\ UNCHANGED <<variant, params, nrows, pc>>
    /\ UNCHANGED <<sweepVars, genVars>>

\* the loop is over: close what is left and return
FinalClose ==
    /\ pc = "loop"
    /\ run.i = nrows
    /\ run' = IF nrows = 0 THEN run ELSE FinalFlatten(variant, run, priceData[nrows])
    /\ pc' = "done"
    /\ UNCHANGED <<variant, params, nrows, priceData, prev_in_high_spread>>
    /\ UNCHANGED <<sweepVars, genVars>>

\* the caller invokes runBacktest again
NextRun ==
    /\ pc = "done"
    /\ params' \in ParamsOf(variant)
    /\ nrows' \in 0..MaxTicks
    /\ priceData' = << >>
    /\ run' = InitRun
    /\ pc' = "loop"
    /\ UNCHANGED <<variant, prev_in_high_spread>>
    /\ UNCHANGED <<sweepVars, genVars>>

Next == Tick \/ FinalClose \/ NextRun

Spec == Init /\ [][Next]_vars

(***************************************************************************)
(* Properties of one run                                                   *)
(***************************************************************************)
\* a step of the time loop
IsTickStep == pc = "loop" /\ pc' = "loop" /\ run'.i = run.i + 1

\* the order would take the position outside [-POSITION_LIMIT, POSITION_LIMIT]
Breaches(position, order) ==
    \/ position + order > POSITION_LIMIT
    \/ position + order < -POSITION_LIMIT

\* C1: in every run, for every series and parameter set, the position after
\* every tick lies within [-POSITION_LIMIT, POSITION_LIMIT]
C1_PositionBound == Abs(run.position) <= POSITION_LIMIT

\* a tick has left the position at the limit
C1_Witness == pc = "loop" /\ run.i > 0 /\ Abs(run.position) = POSITION_LIMIT

\* C2: after runBacktest has completed the position is 0
C2_TerminalFlat == pc = "done" => run.position = 0

\* C3: an order that would breach the position limit is discarded whole: on
\* that tick position, cash and total_fees are unchanged
C3_RejectionTotal ==
    [][(IsTickStep /\ Breaches(run.position, run'.order_quantity))
         => /\ run'.position = run.position
            /\ run'.cash = run.cash
            /\ run'.total_fees = run.total_fees]_vars

\* the last tick emitted a non-zero order that breached the limit and was
\* not filled
C3_Witness ==
    /\ pc = "loop"
    /\ run.i > 0
    /\ run.order_quantity # 0
    /\ run.filled = 0
    /\ Breaches(run.position, run.order_quantity)

\* C7: within a run total_fees is never negative and never decreases, and it
\* grows on a tick only if a non-zero order was filled on that tick
C7_FeeMonotone ==
    [][/\ run.total_fees >= 0
       /\ (pc = "loop" => run'.total_fees >= run.total_fees)
       /\ (IsTickStep /\ run'.total_fees > run.total_fees => run'.filled # 0)
       /\ (IsTickStep /\ run'.filled = 0 => run'.total_fees = run.total_fees)]_vars

\* a tick has filled an order and booked its fees
C7_Witness == pc = "loop" /\ run.i > 0 /\ run.filled # 0 /\ run.total_fees > 0

\* C8: a completed run returns what a run on the same series and parameter
\* set returns in a fresh process, whatever ran before it
C8_Pure ==
    pc = "done" =>
        LET fresh == runBacktest(variant, params, priceData, FALSE)
        IN  run.cash = fresh.cash /\ run.total_fees = fresh.total_fees

(***************************************************************************)
(* The sweep: data                                                         *)
(***************************************************************************)
ParamResult(p, pnl) ==
    [short_window |-> p.short_window,
     waiting_period |-> p.waiting_period,
     hs_exit_change_threshold |-> p.hs_exit_change_threshold,
     ma_turn_threshold |-> p.ma_turn_threshold,
     pnl |-> pnl]

ParamsOfResult(r) ==
    [short_window |-> r.short_window,
     waiting_period |-> r.waiting_period,
     hs_exit_change_threshold |-> r.hs_exit_change_threshold,
     ma_turn_threshold |-> r.ma_turn_threshold]

\* a value-initialised ParamResult, as g_results.resize() leaves the slots
ZeroResult ==
    [short_window |-> 0, waiting_period |-> 0, hs_exit_change_threshold |-> 0,
     ma_turn_threshold |-> 0, pnl |-> 0]

\* the nested loops that build the grid, first dimension outermost
BuildGrid(sw_vals, wp_vals, hsx_vals, mat_vals) ==
    LET nsw == Len(sw_vals)
        nwp == Len(wp_vals)
        nhs == Len(hsx_vals)
        nma == Len(mat_vals)
    IN  [k \in 1..(nsw * nwp * nhs * nma) |->
            LET j == k - 1
            IN  [short_window |-> sw_vals[(j \div (nwp * nhs * nma)) + 1],
                 waiting_period |-> wp_vals[((j \div (nhs * nma)) % nwp) + 1],
                 hs_exit_change_threshold |-> hsx_vals[((j \div nma) % nhs) + 1],
                 ma_turn_threshold |-> mat_vals[(j % nma) + 1]]]

LowTick(b) == [bid |-> b, ask |-> b + 10, diff |-> 0]
HighTick(b) == [bid |-> b, ask |-> b + 14, diff |-> 0]

\* price series of the sweeps: a high-spread tick inside a low-spread
\* stretch, then a rise and a fall (and the mirror image)
SweepSeries ==
    {<<LowTick(95), HighTick(95), LowTick(95), LowTick(105), LowTick(115),
       LowTick(125), LowTick(115), LowTick(105), LowTick(95)>>,
     <<LowTick(115), HighTick(115), LowTick(115), LowTick(105), LowTick(95),
       LowTick(85), LowTick(95), LowTick(105), LowTick(115)>>}

\* grids of valid cells: one smaller than the top-10 queue, one larger
FuzzGrids == {BuildGrid(<<1, 2>>, <<1>>, <<2>>, <<3, 20>>)}
Grids == {BuildGrid(<<2>>, <<1, 2, 3>>, <<2>>, <<3, 12, 20, 40>>)}

\* grids as workerThread can be handed them: without, and with, cells of a
\* non-positive window or waiting period
GridsInv == {BuildGrid(<<1, 2>>, <<1>>, <<2>>, <<3>>),
             BuildGrid(<<0, 1>>, <<1>>, <<2>>, <<3>>),
             BuildGrid(<<1, 2>>, <<0, 1>>, <<2>>, <<3, 20>>)}

Total == Len(g_combos)
WorkerIds == 0..(numThreads - 1)

\* the runBacktest each scheduler links against
BacktestOf(s) == IF s = "fuzz" THEN "lib" ELSE "v1"

\* the pnl runBacktest returns for a cell
CellPnl(s, series, p) == runBacktest(BacktestOf(s), p, series, FALSE).cash

\* part_001:1038
InvalidCell(p) == p.short_window <= 0 \/ p.waiting_period <= 0

\* runBacktest is a function of the series and the cell alone: the value of
\* each call a worker can make, worked out once (no call is made for a cell
\* the worker skips)
PnlTable(s, series, combos) ==
    [k \in 1..Len(combos) |->
        IF InvalidCell(combos[k]) THEN 0 ELSE CellPnl(s, series, combos[k])]

(***************************************************************************)
(* std::priority_queue<ParameterSet> and std::sort.  Both see a result     *)
(* only through its pnl, and C++ leaves the order of equal elements        *)
(* unspecified: the queue is the bag of its elements, top() is any element *)
(* that no other exceeds, and a sort yields any ordered permutation.       *)
(***************************************************************************)
\* ParameterSet::operator<
Less(a, b) == a.pnl < b.pnl

EmptyQueue == EmptyBag

QueueSize(q) == BagCardinality(q)

\* priority_queue::push
QueuePush(q, x) == q (+) SetToBag({x})

\* a queue ordered the other way round
QueueTops_lowest(q) == {x \in BagToSet(q) : \A y \in BagToSet(q) : ~Less(y, x)}

\* the elements priority_queue::top may return
QueueTops(q) == {x \in BagToSet(q) : \A y \in BagToSet(q) : ~Less(x, y)}

\* priority_queue::pop, when top() returned x
QueuePop(q, x) == q (-) SetToBag({x})

\* pop up to k elements off q, pushing each onto newQueue: the queues that
\* can result
RECURSIVE MoveTop(_, _, _)
MoveTop(q, newQueue, k) ==
    IF k = 0 \/ QueueSize(q) = 0 THEN {newQueue}
    ELSE UNION {MoveTop(QueuePop(q, x), QueuePush(newQueue, x), k - 1) :
                  x \in QueueTops(q)}

\* a queue that is never cut back
TrimQueue_never(q) == {q}

\* part_001:1049-1058: keep only the top 10 results
TrimQueue(q) == IF QueueSize(q) > TOP_K THEN MoveTop(q, EmptyQueue, TOP_K) ELSE {q}

\* pop up to k elements off q into a vector, best first: the vectors that
\* can result
RECURSIVE PopInto(_, _, _)
PopInto(q, topResults, k) ==
    IF k = 0 \/ QueueSize(q) = 0 THEN {topResults}
    ELSE UNION {PopInto(QueuePop(q, x), Append(topResults, x), k - 1) :
                  x \in QueueTops(q)}

\* the orders in which the elements of arr at the indices S can follow each
\* other so that none is followed by one of higher pnl
RECURSIVE SortedFrom(_, _)
SortedFrom(arr, S) ==
    IF S = {} THEN {<< >>}
    ELSE UNION {{<<arr[i]>> \o rest : rest \in SortedFrom(arr, S \ {i})} :
                  i \in {i \in S : \A j \in S : arr[j].pnl <= arr[i].pnl}}

\* std::sort with a.pnl > b.pnl: the vectors that can result
SortDesc(arr) == SortedFrom(arr, DOMAIN arr)

Min(a, b) == IF a < b THEN a ELSE b

FirstN(arr, n) == SubSeq(arr, 1, Min(n, Len(arr)))

(***************************************************************************)
(* The sweep: initial states                                               *)
(***************************************************************************)
\* no single run is stepped while a sweep is studied
NoRun ==
    /\ variant = "lib"
    /\ params = [short_window |-> 1, waiting_period |-> 1,
                 hs_exit_change_threshold |-> 2, ma_turn_threshold |-> 3]
    /\ nrows = 0
    /\ priceData = << >>
    /\ run = InitRun
    /\ prev_in_high_spread = FALSE
    /\ pc = "idle"

NewWorker == [pc |-> "fetch", idx |-> -1, pos |-> 0, pr |-> ZeroResult]

\* the shared state as main leaves it when the threads start
SweepStart(s, series, combos, n) ==
    /\ sched = s
    /\ g_series = series
    /\ g_combos = combos
    /\ pnlTable = PnlTable(s, series, combos)
    /\ numThreads = n
    /\ workers = [w \in 0..(n - 1) |-> NewWorker]
    /\ mutex = FREE
    /\ g_nextIdx = 0
    /\ g_doneCount = 0
    /\ runningTasks = 0
    /\ g_results = IF s = "fuzz" THEN [k \in 1..Len(combos) |-> ZeroResult] ELSE << >>
    /\ bestResults = EmptyQueue
    /\ reporter = [pc |-> "poll", done |-> 0, shownDone |-> -1, shownTop |-> << >>]
    /\ finalTop = NoFinal
    /\ evalCount = [k \in 1..Len(combos) |-> 0]

FuzzInit ==
    /\ NoRun
    /\ NoGen
    /\ prevFinal = NoFinal
    /\ \E series \in SweepSeries, combos \in FuzzGrids, n \in 1..MaxWorkers :
         SweepStart("fuzz", series, combos, n)

GridInit ==
    /\ NoRun
    /\ NoGen
    /\ prevFinal = NoFinal
    /\ \E series \in SweepSeries, combos \in Grids, n \in 1..MaxWorkers :
         SweepStart("grid", series, combos, n)

\* workerThread handed workloads that may hold invalid parameter sets
GridInvInit ==
    /\ NoRun
    /\ NoGen
    /\ prevFinal = NoFinal
    /\ \E series \in SweepSeries, combos \in GridsInv, n \in 1..MaxWorkers :
         SweepStart("grid", series, combos, n)

(***************************************************************************)
(* The atomic-cursor fuzzer: FuzzerMain.cpp                                *)
(***************************************************************************)
\* a cursor that moves two cells at a time
FetchAdd_skip(n) == n + 2

\* g_nextIdx.fetch_add(1): the value the cursor holds afterwards
FetchAdd(n) == n + 1

\* a worker that reads the cursor again after it has moved it
FetchWork_reread(w) ==
    /\ sched = "fuzz"
    /\ workers[w].pc = "fetch"
    /\ g_nextIdx' = FetchAdd(g_nextIdx)
    /\ IF g_nextIdx + 1 >= Total
       THEN /\ workers' = [workers EXCEPT ![w].pc = "returned"]
            /\ UNCHANGED evalCount
       ELSE LET p == g_combos[g_nextIdx + 2]
            IN  /\ workers' = [workers EXCEPT
                      ![w].pc = "lock",
                      ![w].idx = g_nextIdx + 1,
                      ![w].pr = ParamResult(p, pnlTable[g_nextIdx + 2])]
                /\ evalCount' = [evalCount EXCEPT ![g_nextIdx + 2] = @ + 1]
    /\ UNCHANGED <<sched, g_series, g_combos, pnlTable, numThreads, mutex, g_doneCount,
                   runningTasks, g_results, bestResults, reporter, finalTop, prevFinal>>
    /\ UNCHANGED <<runVars, genVars>>

\* FuzzerMain.cpp:83-101: claim the next index and back-test its cell
FetchWork(w) ==
    /\ sched = "fuzz"
    /\ workers[w].pc = "fetch"
    /\ g_nextIdx' = FetchAdd(g_nextIdx)
    /\ IF g_nextIdx >= Total
       THEN /\ workers' = [workers EXCEPT ![w].pc = "returned"]
            /\ UNCHANGED evalCount
       ELSE LET p == g_combos[g_nextIdx + 1]
            IN  /\ workers' = [workers EXCEPT
                      ![w].pc = "lock",
                      ![w].idx = g_nextIdx,
                      ![w].pr = ParamResult(p, pnlTable[g_nextIdx + 1])]
                /\ evalCount' = [evalCount EXCEPT ![g_nextIdx + 1] = @ + 1]
    /\ UNCHANGED <<sched, g_series, g_combos, pnlTable, numThreads, mutex, g_doneCount,
                   runningTasks, g_results, bestResults, reporter, finalTop, prevFinal>>
    /\ UNCHANGED <<runVars, genVars>>

\* a lock_guard that does not wait for the holder to release
LockResults_barging(w) ==
    /\ workers[w].pc = "lock"
    /\ mutex' = w
    /\ workers' = [workers EXCEPT ![w].pc = "store"]
    /\ UNCHANGED <<sched, g_series, g_combos, pnlTable, numThreads, g_nextIdx, g_doneCount,
                   runningTasks, g_results, bestResults, reporter, finalTop,
                   evalCount, prevFinal>>
    /\ UNCHANGED <<runVars, genVars>>

\* std::lock_guard on the result mutex, in either scheduler
LockResults(w) ==
    /\ workers[w].pc = "lock"
    /\ mutex = FREE
    /\ mutex' = w
    /\ workers' = [workers EXCEPT ![w].pc = "store"]
    /\ UNCHANGED <<sched, g_series, g_combos, pnlTable, numThreads, g_nextIdx, g_doneCount,
                   runningTasks, g_results, bestResults, reporter, finalTop,
                   evalCount, prevFinal>>
    /\ UNCHANGED <<runVars, genVars>>

\* a worker that takes the mutex but leaves its slot unwritten
StoreResult_dropped(w) ==
    /\ sched = "fuzz"
    /\ workers[w].pc = "store"
    /\ mutex' = FREE
    /\ workers' = [workers EXCEPT ![w].pc = "count"]
    /\ UNCHANGED <<sched, g_series, g_combos, pnlTable, numThreads, g_nextIdx, g_doneCount,
                   runningTasks, g_results, bestResults, reporter, finalTop, evalCount,
                   prevFinal>>
    /\ UNCHANGED <<runVars, genVars>>

\* FuzzerMain.cpp:104-107: write the slot of the claimed index, unlock
StoreResult(w) ==
    /\ sched = "fuzz"
    /\ workers[w].pc = "store"
    /\ g_results' = [g_results EXCEPT ![workers[w].idx + 1] = workers[w].pr]
    /\ mutex' = FREE
    /\ workers' = [workers EXCEPT ![w].pc = "count"]
    /\ UNCHANGED <<sched, g_series, g_combos, pnlTable, numThreads, g_nextIdx, g_doneCount,
                   runningTasks, bestResults, reporter, finalTop, evalCount, prevFinal>>
    /\ UNCHANGED <<runVars, genVars>>

\* a worker that forgets to count its cell
CountDone_lost(w) ==
    /\ sched = "fuzz"
    /\ workers[w].pc = "count"
    /\ workers' = [workers EXCEPT ![w].pc = "fetch"]
    /\ UNCHANGED <<sched, g_series, g_combos, pnlTable, numThreads, mutex, g_nextIdx,
                   g_doneCount, runningTasks, g_results, bestResults, reporter,
                   finalTop, evalCount, prevFinal>>
    /\ UNCHANGED <<runVars, genVars>>

\* FuzzerMain.cpp:108
CountDone(w) ==
    /\ sched = "fuzz"
    /\ workers[w].pc = "count"
    /\ g_doneCount' = g_doneCount + 1
    /\ workers' = [workers EXCEPT ![w].pc = "fetch"]
    /\ UNCHANGED <<sched, g_series, g_combos, pnlTable, numThreads, mutex, g_nextIdx,
                   runningTasks, g_results, bestResults, reporter, finalTop,
                   evalCount, prevFinal>>
    /\ UNCHANGED <<runVars, genVars>>

\* FuzzerMain.cpp:121-128: wake up, read the counter, leave the loop when done
ProgPoll ==
    /\ sched = "fuzz"
    /\ reporter.pc = "poll"
    /\ reporter' = [reporter EXCEPT !.done = g_doneCount,
                                    !.pc = IF g_doneCount >= Total THEN "final" ELSE "snap"]
    /\ UNCHANGED <<sched, g_series, g_combos, pnlTable, numThreads, workers, mutex, g_nextIdx,
                   g_doneCount, runningTasks, g_results, bestResults, finalTop,
                   evalCount, prevFinal>>
    /\ UNCHANGED <<runVars, genVars>>

\* FuzzerMain.cpp:133 and 164-167: take the mutex for a copy; the final
\* block reads the counter again first
ProgLock ==
    /\ sched = "fuzz"
    /\ reporter.pc \in {"snap", "final"}
    /\ mutex = FREE
    /\ mutex' = REPORTER
    /\ reporter' = IF reporter.pc = "snap"
                   THEN [reporter EXCEPT !.pc = "snap_copy"]
                   ELSE [reporter EXCEPT !.pc = "final_copy", !.done = g_doneCount]
    /\ UNCHANGED <<sched, g_series, g_combos, pnlTable, numThreads, workers, g_nextIdx,
                   g_doneCount, runningTasks, g_results, bestResults, finalTop,
                   evalCount, prevFinal>>
    /\ UNCHANGED <<runVars, genVars>>

\* FuzzerMain.cpp:134-159: copy, unlock, sort, print progress and top 3
ProgSnapshot ==
    /\ sched = "fuzz"
    /\ reporter.pc = "snap_copy"
    /\ mutex' = FREE
    /\ \E sorted \in SortDesc(g_results) :
         reporter' = [reporter EXCEPT !.pc = "poll",
                                      !.shownDone = reporter.done,
                                      !.shownTop = FirstN(sorted, 3)]
    /\ UNCHANGED <<sched, g_series, g_combos, pnlTable, numThreads, workers, g_nextIdx,
                   g_doneCount, runningTasks, g_results, bestResults, finalTop,
                   evalCount, prevFinal>>
    /\ UNCHANGED <<runVars, genVars>>

\* FuzzerMain.cpp:168-186: copy, unlock, sort, print the final top 3
ProgFinal ==
    /\ sched = "fuzz"
    /\ reporter.pc = "final_copy"
    /\ mutex' = FREE
    /\ reporter' = [reporter EXCEPT !.pc = "finished", !.shownDone = reporter.done]
    /\ \E sorted \in SortDesc(g_results) : finalTop' = FirstN(sorted, 3)
    /\ UNCHANGED <<sched, g_series, g_combos, pnlTable, numThreads, workers, g_nextIdx,
                   g_doneCount, runningTasks, g_results, bestResults,
                   evalCount, prevFinal>>
    /\ UNCHANGED <<runVars, genVars>>

FuzzWorker(w) == FetchWork(w) \/ LockResults(w) \/ StoreResult(w) \/ CountDone(w)

FuzzProgress == ProgPoll \/ ProgLock \/ ProgSnapshot \/ ProgFinal

FuzzNext == (\E w \in WorkerIds : FuzzWorker(w)) \/ FuzzProgress

SpecFuzz == FuzzInit /\ [][FuzzNext]_vars

(***************************************************************************)
(* The partitioned grid search: part_001:1036-1065 and 1113-1270           *)
(***************************************************************************)
\* part_001:1197-1199: the pos-th cell of the workload of thread w
WorkloadIndex(w, pos, n) == w + pos * n

\* part_001:1037-1042: next parameter set of the workload; skip it when it
\* is invalid, otherwise back-test it
TakeWork(w) ==
    /\ sched = "grid"
    /\ workers[w].pc = "fetch"
    /\ LET idx == WorkloadIndex(w, workers[w].pos, numThreads)
       IN  IF idx >= Total
           THEN /\ workers' = [workers EXCEPT ![w].pc = "returned"]
                /\ UNCHANGED <<evalCount, runningTasks>>
           ELSE IF InvalidCell(g_combos[idx + 1])
                THEN /\ workers' = [workers EXCEPT ![w].pos = @ + 1]
                     /\ UNCHANGED <<evalCount, runningTasks>>
                ELSE LET p == g_combos[idx + 1]
                     IN  /\ workers' = [workers EXCEPT
                               ![w].pc = "lock",
                               ![w].idx = idx,
                               ![w].pr = ParamResult(p, pnlTable[idx + 1])]
                         /\ evalCount' = [evalCount EXCEPT ![idx + 1] = @ + 1]
                         /\ runningTasks' = runningTasks + 1
    /\ UNCHANGED <<sched, g_series, g_combos, pnlTable, numThreads, mutex, g_nextIdx,
                   g_doneCount, g_results, bestResults, reporter, finalTop, prevFinal>>
    /\ UNCHANGED <<runVars, genVars>>

\* part_001:1045-1059: push under the mutex and trim to the top 10
PushResult(w) ==
    /\ sched = "grid"
    /\ workers[w].pc = "store"
    /\ bestResults' \in TrimQueue(QueuePush(bestResults, workers[w].pr))
    /\ mutex' = FREE
    /\ workers' = [workers EXCEPT ![w].pc = "count"]
    /\ UNCHANGED <<sched, g_series, g_combos, pnlTable, numThreads, g_nextIdx, g_doneCount,
                   runningTasks, g_results, reporter, finalTop, evalCount, prevFinal>>
    /\ UNCHANGED <<runVars, genVars>>

\* a worker that counts its parameter set twice
CompleteTask_double(w) ==
    /\ sched = "grid"
    /\ workers[w].pc = "count"
    /\ g_doneCount' = g_doneCount + 2
    /\ runningTasks' = runningTasks - 1
    /\ workers' = [workers EXCEPT ![w].pc = "fetch", ![w].pos = @ + 1]
    /\ UNCHANGED <<sched, g_series, g_combos, pnlTable, numThreads, mutex, g_nextIdx,
                   g_results, bestResults, reporter, finalTop, evalCount, prevFinal>>
    /\ UNCHANGED <<runVars, genVars>>

\* part_001:1062-1063, and on to the next parameter set
CompleteTask(w) ==
    /\ sched = "grid"
    /\ workers[w].pc = "count"
    /\ g_doneCount' = g_doneCount + 1
    /\ runningTasks' = runningTasks - 1
    /\ workers' = [workers EXCEPT ![w].pc = "fetch", ![w].pos = @ + 1]
    /\ UNCHANGED <<sched, g_series, g_combos, pnlTable, numThreads, mutex, g_nextIdx,
                   g_results, bestResults, reporter, finalTop, evalCount, prevFinal>>
    /\ UNCHANGED <<runVars, genVars>>

\* part_001:1212-1221: the monitor loop of main reads the counter; while
\* tasks are missing it prints the bar and, on some rounds, the top results
MonitorPoll ==
    /\ sched = "grid"
    /\ reporter.pc = "poll"
    /\ \E display \in BOOLEAN :
         reporter' = [reporter EXCEPT
             !.pc = IF g_doneCount >= Total THEN "join"
                    ELSE IF display THEN "snap" ELSE "poll"]
    /\ UNCHANGED <<sched, g_series, g_combos, pnlTable, numThreads, workers, mutex, g_nextIdx,
                   g_doneCount, runningTasks, g_results, bestResults, finalTop,
                   evalCount, prevFinal>>
    /\ UNCHANGED <<runVars, genVars>>

\* part_001:1222
MonitorLock ==
    /\ sched = "grid"
    /\ reporter.pc = "snap"
    /\ mutex = FREE
    /\ mutex' = REPORTER
    /\ reporter' = [reporter EXCEPT !.pc = "snap_copy"]
    /\ UNCHANGED <<sched, g_series, g_combos, pnlTable, numThreads, workers, g_nextIdx,
                   g_doneCount, runningTasks, g_results, bestResults, finalTop,
                   evalCount, prevFinal>>
    /\ UNCHANGED <<runVars, genVars>>

\* part_001:1081-1110 displayTopResults(3), then unlock and sleep
MonitorDisplay ==
    /\ sched = "grid"
    /\ reporter.pc = "snap_copy"
    /\ mutex' = FREE
    /\ \E topResults \in PopInto(bestResults, << >>, 3) :
       \E sorted \in SortDesc(topResults) :
         reporter' = [reporter EXCEPT
             !.pc = "poll",
             !.shownTop = IF QueueSize(bestResults) = 0 THEN @ ELSE sorted]
    /\ UNCHANGED <<sched, g_series, g_combos, pnlTable, numThreads, workers, g_nextIdx,
                   g_doneCount, runningTasks, g_results, bestResults, finalTop,
                   evalCount, prevFinal>>
    /\ UNCHANGED <<runVars, genVars>>

AllReturned == \A w \in WorkerIds : workers[w].pc = "returned"

\* part_001:1235-1262: join the workers, drain the queue, sort, print
FinalReport ==
    /\ sched = "grid"
    /\ reporter.pc = "join"
    /\ AllReturned
    /\ \E topResults \in PopInto(bestResults, << >>, QueueSize(bestResults)) :
         finalTop' \in SortDesc(topResults)
    /\ bestResults' = EmptyQueue
    /\ reporter' = [reporter EXCEPT !.pc = "finished"]
    /\ UNCHANGED <<sched, g_series, g_combos, pnlTable, numThreads, workers, mutex, g_nextIdx,
                   g_doneCount, runningTasks, g_results, evalCount, prevFinal>>
    /\ UNCHANGED <<runVars, genVars>>

GridWorker(w) == TakeWork(w) \/ LockResults(w) \/ PushResult(w) \/ CompleteTask(w)

GridMain == MonitorPoll \/ MonitorLock \/ MonitorDisplay \/ FinalReport

GridNext == (\E w \in WorkerIds : GridWorker(w)) \/ GridMain

SpecGrid == GridInit /\ [][GridNext]_vars

SpecGridInv == GridInvInit /\ [][GridNext]_vars

(***************************************************************************)
(* Both sweeps side by side                                                *)
(***************************************************************************)
SweepInit == FuzzInit \/ GridInit

SweepNext == FuzzNext \/ GridNext

SpecSweep == SweepInit /\ [][SweepNext]_vars

(***************************************************************************)
(* The grid search run twice, the second time with another thread count    *)
(***************************************************************************)
\* a grid small enough to be searched twice
RerunGrids == {BuildGrid(<<2>>, <<1>>, <<2>>, <<3, 12, 20>>)}

GridRerunInit ==
    /\ NoRun
    /\ NoGen
    /\ prevFinal = NoFinal
    /\ \E series \in SweepSeries, combos \in RerunGrids, n \in 1..MaxWorkers :
         SweepStart("grid", series, combos, n)

\* part_001:1113-1206: main started again on the same CSV and the same grid
\* when hardware_concurrency() reports another number
Rerun ==
    /\ sched = "grid"
    /\ reporter.pc = "finished"
    /\ prevFinal = NoFinal
    /\ prevFinal' = finalTop
    /\ \E n \in (1..MaxWorkers) \ {numThreads} :
         /\ numThreads' = n
         /\ workers' = [w \in 0..(n - 1) |-> NewWorker]
    /\ mutex' = FREE
    /\ g_doneCount' = 0
    /\ runningTasks' = 0
    /\ bestResults' = EmptyQueue
    /\ reporter' = [pc |-> "poll", done |-> 0, shownDone |-> -1, shownTop |-> << >>]
    /\ finalTop' = NoFinal
    /\ evalCount' = [k \in 1..Total |-> 0]
    /\ UNCHANGED <<sched, g_series, g_combos, pnlTable, g_nextIdx, g_results>>
    /\ UNCHANGED <<runVars, genVars>>

GridRerunNext == GridNext \/ Rerun

SpecGridRerun == GridRerunInit /\ [][GridRerunNext]_vars

(***************************************************************************)
(* Scheduling: every thread that can take a step eventually takes one, and *)
(* a thread that finds the mutex free again and again eventually gets it   *)
(***************************************************************************)
ThreadSlots == 0..(MaxWorkers - 1)

FuzzFairness ==
    /\ \A w \in ThreadSlots :
         /\ WF_vars(w \in WorkerIds /\ FetchWork(w))
         /\ SF_vars(w \in WorkerIds /\ LockResults(w))
         /\ WF_vars(w \in WorkerIds /\ StoreResult(w))
         /\ WF_vars(w \in WorkerIds /\ CountDone(w))
    /\ WF_vars(ProgPoll)
    /\ SF_vars(ProgLock)
    /\ WF_vars(ProgSnapshot)
    /\ WF_vars(ProgFinal)

\* a grid of three cells for the fuzzer
SmallFuzzGrids == {BuildGrid(<<1>>, <<1>>, <<2>>, <<3, 12, 20>>)}

FairFuzzInit ==
    /\ NoRun
    /\ NoGen
    /\ prevFinal = NoFinal
    /\ \E series \in SweepSeries, combos \in SmallFuzzGrids, n \in 1..MaxWorkers :
         SweepStart("fuzz", series, combos, n)

FairSpecFuzz == FairFuzzInit /\ [][FuzzNext]_vars /\ FuzzFairness

GridFairness ==
    /\ \A w \in ThreadSlots :
         /\ WF_vars(w \in WorkerIds /\ TakeWork(w))
         /\ SF_vars(w \in WorkerIds /\ LockResults(w))
         /\ WF_vars(w \in WorkerIds /\ PushResult(w))
         /\ WF_vars(w \in WorkerIds /\ CompleteTask(w))
    /\ WF_vars(MonitorPoll)
    /\ SF_vars(MonitorLock)
    /\ WF_vars(MonitorDisplay)
    /\ WF_vars(FinalReport)

FairSpecGridInv == GridInvInit /\ [][GridNext]_vars /\ GridFairness

(***************************************************************************)
(* Properties of the sweeps                                                *)
(***************************************************************************)
\* what runBacktest returns for each cell, with the cell's parameters
AllResults == [k \in 1..Total |-> ParamResult(g_combos[k], pnlTable[k])]

\* workers between the end of their backtest and the count of its cell
InHand(w) == workers[w].pc \in {"lock", "store", "count"}

\* C4: in a sweep with any number of workers and any interleaving, every
\* cell is claimed by one worker only and back-tested once only; the result
\* a worker carries is the one of the cell it claimed, the fuzzer stores it
\* in the slot of that cell's index, the grid search queues it with that
\* cell's parameters; and when all workers have returned every cell has
\* been back-tested exactly once and every slot is filled.
C4_ExactlyOnce ==
    /\ \A k \in 1..Total : evalCount[k] <= 1
    /\ \A w \in WorkerIds : InHand(w) =>
          /\ evalCount[workers[w].idx + 1] = 1
          /\ workers[w].pr = AllResults[workers[w].idx + 1]
          /\ \A v \in WorkerIds \ {w} : InHand(v) => workers[v].idx # workers[w].idx
    /\ sched = "fuzz" =>
          \A k \in 1..Total :
             \/ g_results[k] = ZeroResult
             \/ evalCount[k] = 1 /\ g_results[k] = AllResults[k]
    /\ sched = "grid" =>
          \A r \in BagToSet(bestResults) :
             \E k \in 1..Total : evalCount[k] = 1 /\ r = AllResults[k]
    /\ AllReturned =>
          /\ \A k \in 1..Total : evalCount[k] = 1
          /\ sched = "fuzz" => g_results = AllResults

\* a fuzzer sweep finished by two workers that both carried cells
C4_Witness ==
    /\ sched = "fuzz"
    /\ numThreads >= 2
    /\ AllReturned
    /\ \A w \in WorkerIds : workers[w].idx >= 0
    /\ g_results = AllResults

\* C5: the sweep run again on the same grid and series with another number
\* of workers prints the same final ranking as the first time.
C5_TopKStable ==
    (prevFinal # NoFinal /\ reporter.pc = "finished") => finalTop = prevFinal

\* the number of entries of the final report
ReportedK == IF sched = "fuzz" THEN 3 ELSE TOP_K

\* C6: once the final report is out, its ranking is ordered by
\* non-increasing pnl, holds min(K, total) results of different cells, and no
\* cell left out of it has a higher pnl than any entry in it.
C6_FinalRanking ==
    reporter.pc = "finished" =>
        /\ Len(finalTop) = Min(ReportedK, Total)
        /\ \A j \in 1..(Len(finalTop) - 1) : finalTop[j].pnl >= finalTop[j + 1].pnl
        /\ \A j \in 1..Len(finalTop) : \E k \in 1..Total : finalTop[j] = AllResults[k]
        /\ \A i, j \in 1..Len(finalTop) : i # j => finalTop[i] # finalTop[j]
        /\ \A k \in 1..Total :
              (\A j \in 1..Len(finalTop) : finalTop[j] # AllResults[k])
                 => \A j \in 1..Len(finalTop) : AllResults[k].pnl <= finalTop[j].pnl

\* a grid search over more than K cells by several workers has reported
C6_Witness ==
    /\ sched = "grid"
    /\ reporter.pc = "finished"
    /\ numThreads >= 2
    /\ Total > TOP_K
    /\ Len(finalTop) = TOP_K

\* C9: with fairly scheduled threads the fuzzer's sweep ends: all workers
\* return, the counter reaches the number of cells, and the progress thread
\* prints the final report and stops.
C9_Completes ==
    <>[](AllReturned /\ g_doneCount = Total /\ reporter.pc = "finished")

\* a sweep by several workers, with progress printed on the way, has ended
C9_Witness ==
    /\ sched = "fuzz"
    /\ numThreads >= 2
    /\ AllReturned
    /\ g_doneCount = Total
    /\ reporter.pc = "finished"
    /\ reporter.shownDone >= 0

\* C10: a cell with a non-positive window or waiting period is skipped and
\* the sweep goes on: every other cell is back-tested once, the monitor loop
\* of main ends, and the final ranking is printed.
C10_FailureIsolated ==
    <>[](/\ \A k \in 1..Total :
              evalCount[k] = IF InvalidCell(g_combos[k]) THEN 0 ELSE 1
         /\ AllReturned
         /\ reporter.pc = "finished")

(***************************************************************************)
(* Ties in the ranking                                                     *)
(***************************************************************************)
\* the place in the grid of the cell a result belongs to
CellIndex(r) == CHOOSE k \in 1..Total : AllResults[k] = r

\* C11: in the final report, of two results with equal pnl the one whose
\* cell comes first in the grid is ranked first, and a cell left out of the
\* report never comes before a reported cell of the same pnl.
C11_FirstSeenWins ==
    reporter.pc = "finished" =>
        /\ \A i, j \in 1..Len(finalTop) :
              (i < j /\ finalTop[i].pnl = finalTop[j].pnl)
                 => CellIndex(finalTop[i]) < CellIndex(finalTop[j])
        /\ \A k \in 1..Total : \A j \in 1..Len(finalTop) :
              ((\A i \in 1..Len(finalTop) : finalTop[i] # AllResults[k])
                  /\ AllResults[k].pnl = finalTop[j].pnl)
                 => CellIndex(finalTop[j]) < k

(***************************************************************************)
(* Cash and fees of the fills                                              *)
(***************************************************************************)
\* the variants whose ledger keeps total_fees
KeepsFees(v) == v \in {"v1", "st"}

\* the notional bought and sold by the run on series from tick k on, the
\* final close included, told from the fill of each tick and its prices
RECURSIVE NotionalFrom(_, _, _, _, _, _)
NotionalFrom(v, p, r, series, k, acc) ==
    IF k > Len(series)
    THEN IF Len(series) = 0 \/ r.position = 0 THEN acc
         ELSE IF r.position > 0
              THEN [acc EXCEPT !.sold = @ + series[Len(series)].bid * r.position]
              ELSE [acc EXCEPT !.bought = @ + series[Len(series)].ask * (-r.position)]
    ELSE LET s == TickStep(v, p, r, series[k], r.prev_in_high_spread).run
             q == s.filled
         IN  NotionalFrom(v, p, s, series, k + 1,
                IF q > 0 THEN [acc EXCEPT !.bought = @ + series[k].ask * q]
                ELSE IF q < 0 THEN [acc EXCEPT !.sold = @ + series[k].bid * (-q)]
                ELSE acc)

Notional(v, p, series) ==
    NotionalFrom(v, p, InitRun, series, 1, [bought |-> 0, sold |-> 0])

\* C12: a filled buy of q units takes ask*q*(1+0.002) off the cash, a
\* filled sell of q units adds bid*q*(1-0.002), the final close included,
\* and each adds 0.002 of its notional to total_fees; when the run returns,
\* total_fees is 0.002 of the notional of all fills and pnl + total_fees is
\* the notional sold minus the notional bought.
C12_FeeAccounting ==
    [][LET q == run'.position - run.position
           tick == IF IsTickStep THEN priceData'[Len(priceData')]
                   ELSE priceData[nrows]
           closing == pc = "loop" /\ pc' = "done" /\ run.position # 0
           sold == IF closing THEN run.position ELSE -q
       IN  /\ (IsTickStep /\ q > 0) =>
                /\ run'.cash = run.cash - tick.ask * q * (FEE_DENOM + FEES)
                /\ KeepsFees(variant) =>
                      run'.total_fees = run.total_fees + tick.ask * q * FEES
           /\ ((IsTickStep /\ q < 0) \/ (closing /\ run.position > 0)) =>
                /\ run'.cash = run.cash + tick.bid * sold * (FEE_DENOM - FEES)
                /\ KeepsFees(variant) =>
                      run'.total_fees = run.total_fees + tick.bid * sold * FEES
           /\ (closing /\ run.position < 0) =>
                /\ run'.cash = run.cash - tick.ask * (-run.position) * (FEE_DENOM + FEES)
                /\ KeepsFees(variant) =>
                      run'.total_fees = run.total_fees + tick.ask * (-run.position) * FEES
           /\ (IsTickStep /\ q = 0) =>
                run'.cash = run.cash /\ run'.total_fees = run.total_fees
           /\ (pc = "loop" /\ pc' = "done" /\ variant = "v1") =>
                LET n == Notional(variant, params, priceData)
                IN  /\ run'.total_fees = FEES * (n.bought + n.sold)
                    /\ run'.cash + run'.total_fees = FEE_DENOM * (n.sold - n.bought)]_vars

\* a run of the grid search has returned after buying and selling
C12_Witness ==
    /\ variant = "v1"
    /\ pc = "done"
    /\ nrows > 0
    /\ run.total_fees > 0
    /\ LET n == Notional(variant, params, priceData)
       IN  n.bought > 0 /\ n.sold > 0

(***************************************************************************)
(* Series without a high-spread tick                                       *)
(***************************************************************************)
\* the variants of the spread strategy whose runs share nothing
SpreadRun(v) == v \in {"lib", "v1"}

NoHighSpread(series) == \A k \in 1..Len(series) : ~InHighSpread(series[k])

\* C13: as long as no tick read so far is high-spread, the run of
\* Backtester.cpp and of part_001 has emitted no order: the position is 0
\* and cash and total_fees are 0, and so they are when the run returns.
C13_NoTradeWithoutHighSpread ==
    (SpreadRun(variant) /\ NoHighSpread(priceData)) =>
        /\ run.order_quantity = 0
        /\ run.filled = 0
        /\ run.position = 0
        /\ ~run.in_position
        /\ run.cash = 0
        /\ run.total_fees = 0

\* a run over low-spread ticks of moving price, with its short average
\* defined, has returned
C13_Witness ==
    /\ SpreadRun(variant)
    /\ pc = "done"
    /\ nrows >= 3
    /\ NoHighSpread(priceData)
    /\ \E j, k \in 1..nrows : priceData[j].bid # priceData[k].bid
    /\ run.short_avg # NaN


(***************************************************************************)
(* The parameter grid of the fuzzer: FuzzerMain.cpp:38-64 and 248-276      *)
(* Integer candidates are C++ ints.  A double candidate is carried in      *)
(* millionths (0.2 is 200000), so that base * (100 + i) / 100 is exact for *)
(* the bases used here and the epsilon 1e-6 is 1.                          *)
(***************************************************************************)
\* the loop bounds of fuzzIntParam and fuzzDoubleParam: i = -10 .. 10
FUZZ_FROM == -10
FUZZ_TO == 10
FuzzSteps == [n \in 1..(FUZZ_TO - FUZZ_FROM + 1) |-> FUZZ_FROM + n - 1]
EPSILON == 1

\* std::round of num/100: to the nearest whole number, halves away from zero
RoundHundredths(num) ==
    IF num >= 0 THEN (num + 50) \div 100 ELSE 0 - ((50 - num) \div 100)

\* (int) of num/100: the fraction is dropped
TruncHundredths(num) ==
    IF num >= 0 THEN num \div 100 ELSE 0 - ((0 - num) \div 100)

\* std::sort of a vector of numbers, ascending
RECURSIVE InsertAsc(_, _)
InsertAsc(sorted, x) ==
    IF sorted = << >> THEN <<x>>
    ELSE IF x <= Head(sorted) THEN <<x>> \o sorted
    ELSE <<Head(sorted)>> \o InsertAsc(Tail(sorted), x)

RECURSIVE SortAsc(_)
SortAsc(vals) ==
    IF vals = << >> THEN << >>
    ELSE InsertAsc(SortAsc(SubSeq(vals, 1, Len(vals) - 1)), vals[Len(vals)])

\* integer candidates cut off instead of rounded
fuzzIntParam_trunc(baseVal) ==
    SortAsc([n \in DOMAIN FuzzSteps |->
               LET iv == TruncHundredths(baseVal * (100 + FuzzSteps[n]))
               IN  IF iv < 1 THEN 1 ELSE iv])

fuzzIntParam(baseVal) ==
    SortAsc([n \in DOMAIN FuzzSteps |->
               LET iv == RoundHundredths(baseVal * (100 + FuzzSteps[n]))
               IN  IF iv < 1 THEN 1 ELSE iv])

fuzzDoubleParam(baseVal) ==
    SortAsc([n \in DOMAIN FuzzSteps |->
               LET dv == (baseVal * (100 + FuzzSteps[n])) \div 100
               IN  IF dv <= 0 THEN EPSILON ELSE dv])

\* the base values main may be built with; FuzzerMain.cpp:249-252 ships
\* 80, 80, 0.2 and 0.9
BaseInts == {80, 100}
BaseHSX == {200000}
BaseMAT == {900000}

GenInit ==
    /\ NoRun
    /\ NoSweep
    /\ prevFinal = NoFinal
    /\ \E sw \in BaseInts, wp \in BaseInts, hsx \in BaseHSX, mat \in BaseMAT :
         gen = [pc |-> "vals", baseSW |-> sw, baseWP |-> wp,
                baseHSX |-> hsx, baseMAT |-> mat]

\* FuzzerMain.cpp:254-257: the four candidate lists
FuzzValues ==
    /\ gen.pc = "vals"
    /\ gen' = [pc |-> "combos",
               baseSW |-> gen.baseSW, baseWP |-> gen.baseWP,
               baseHSX |-> gen.baseHSX, baseMAT |-> gen.baseMAT,
               sw_vals |-> fuzzIntParam(gen.baseSW),
               wp_vals |-> fuzzIntParam(gen.baseWP),
               hsx_vals |-> fuzzDoubleParam(gen.baseHSX),
               mat_vals |-> fuzzDoubleParam(gen.baseMAT),
               size |-> 0]
    /\ UNCHANGED <<runVars, sweepVars>>

\* the position of the four nested loops when g_combos holds n entries,
\* counted from 0: the innermost loop runs fastest
LoopIndex(g, n) ==
    LET m == Len(g.mat_vals)
        h == Len(g.hsx_vals)
        w == Len(g.wp_vals)
    IN  [sw |-> n \div (w * h * m), wp |-> (n \div (h * m)) % w,
         hsx |-> (n \div m) % h, mat |-> n % m]

\* the entry of g_combos at index n, counted from 0
ComboAt(g, n) ==
    LET k == LoopIndex(g, n)
    IN  [short_window |-> g.sw_vals[k.sw + 1],
         waiting_period |-> g.wp_vals[k.wp + 1],
         hs_exit_change_threshold |-> g.hsx_vals[k.hsx + 1],
         ma_turn_threshold |-> g.mat_vals[k.mat + 1],
         pnl |-> 0]

\* the number of iterations the four loops make
LoopCount(g) == Len(g.sw_vals) * Len(g.wp_vals) * Len(g.hsx_vals) * Len(g.mat_vals)

\* FuzzerMain.cpp:260-273: one iteration of the innermost loop pushes one
\* entry; g_combos is carried as its size, its entries are ComboAt
PushCombo ==
    /\ gen.pc = "combos"
    /\ gen.size < LoopCount(gen)
    /\ gen' = [gen EXCEPT !.size = gen.size + 1]
    /\ UNCHANGED <<runVars, sweepVars>>

\* FuzzerMain.cpp:274-275: g_totalCount = g_combos.size()
CountCombos ==
    /\ gen.pc = "combos"
    /\ gen.size = LoopCount(gen)
    /\ gen' = [gen EXCEPT !.pc = "built"]
    /\ UNCHANGED <<runVars, sweepVars>>

GenNext == FuzzValues \/ PushCombo \/ CountCombos

SpecGen == GenInit /\ [][GenNext]_vars

\* number of entries of a candidate list that equal x
CountOf(vals, x) == Cardinality({n \in DOMAIN vals : vals[n] = x})

\* C14: each of the four dimensions yields exactly floor(2r/s)+1 = 21
\* candidates, the finished grid holds the product of the four counts, and it
\* holds one entry per combination: no entry pushed repeats an earlier one
C14_GridCardinality ==
    gen.pc \in {"combos", "built"} =>
        /\ Len(gen.sw_vals) = 21 /\ Len(gen.wp_vals) = 21
        /\ Len(gen.hsx_vals) = 21 /\ Len(gen.mat_vals) = 21
        /\ gen.pc = "built" => gen.size = 21 * 21 * 21 * 21
        /\ gen.size > 0 =>
             \A n \in 0..(gen.size - 2) : ComboAt(gen, n) # ComboAt(gen, gen.size - 1)

UsesShortAvg(v) == v \in {"lib", "v1", "st"}

\* the history the rolling mean of the last tick was taken of: Backtester.cpp
\* averages before it pushes the current mid-price, the others after
HistoryOf(v, r) ==
    IF v = "lib" THEN SubSeq(r.midPrices, 1, Len(r.midPrices) - 1) ELSE r.midPrices

\* the 0-based indices of the history read on the last tick
ReadsOf(v, p, r) ==
    IF v = "lib"
    THEN IF Len(HistoryOf(v, r)) >= p.short_window
         THEN MeanReads(Len(HistoryOf(v, r)), p.short_window) ELSE {}
    ELSE RollingReads(r.i - 1, p.short_window)

\* C16: the rolling mean of a history with window w is NaN when the history
\* holds fewer than w elements, otherwise it is the mean of exactly the last w
\* elements (held as their sum), and only indices of the history are read
C16_RollingMean ==
    (UsesShortAvg(variant) /\ run.i > 0) =>
        LET h == HistoryOf(variant, run)
            w == params.short_window
            reads == ReadsOf(variant, params, run)
        IN  /\ Len(h) < w => run.short_avg = NaN /\ reads = {}
            /\ Len(h) >= w =>
                 /\ run.short_avg = SumRange(h, Len(h) - w + 1, Len(h))
                 /\ reads = (Len(h) - w)..(Len(h) - 1)
            /\ reads \subseteq 0..(Len(h) - 1)

C16_Witness ==
    /\ variant = "v1"
    /\ params.short_window = 2
    /\ run.i >= 3
    /\ run.short_avg # NaN
    /\ run.short_avg = run.midPrices[run.i] + run.midPrices[run.i - 1]
    /\ run.midPrices[run.i - 2] # run.midPrices[run.i]


(***************************************************************************)
(* The empty price series                                                  *)
(***************************************************************************)
\* C17: runBacktest on an empty price series reads no tick and returns with
\* pnl = 0 and total_fees = 0: the run ends in the state it started in
C17_EmptySeries ==
    (nrows = 0 /\ pc \in {"loop", "done"}) =>
        /\ priceData = << >>
        /\ run.i = 0
        /\ run.cash = 0
        /\ run.total_fees = 0
        /\ run = InitRun

C17_Witness ==
    /\ nrows = 0
    /\ pc = "done"
    /\ variant \in {"lib", "v1"}
    /\ priceData = << >>
    /\ run.cash = 0


(***************************************************************************)
(* main from the loaded CSV to the start of the threads:                   *)
(* FuzzerMain.cpp:241-293 and part_001:1116-1206                           *)
(***************************************************************************)
\* what loadCSV can leave: a series, or nothing
MainSeries == SweepSeries \cup {<< >>}

\* the grids main can go on with; for the grid search also one whose cells
\* all have a non-positive window
MainGrids(s) ==
    IF s = "fuzz" THEN SmallFuzzGrids
    ELSE GridsInv \cup {BuildGrid(<<0>>, <<1>>, <<2>>, <<3, 20>>)}

MainInit ==
    /\ NoRun
    /\ gen = [pc |-> "loaded"]
    /\ sched \in {"fuzz", "grid"}
    /\ g_series \in MainSeries
    /\ g_combos = << >>
    /\ pnlTable = << >>
    /\ numThreads = 0
    /\ workers = << >>
    /\ mutex = FREE
    /\ g_nextIdx = 0
    /\ g_doneCount = 0
    /\ runningTasks = 0
    /\ g_results = << >>
    /\ bestResults = EmptyQueue
    /\ reporter = [pc |-> "off"]
    /\ finalTop = NoFinal
    /\ evalCount = << >>
    /\ prevFinal = NoFinal

\* FuzzerMain.cpp:241-245, part_001:1118-1121: no row was loaded, return 1
DataMissing ==
    /\ gen.pc = "loaded"
    /\ g_series = << >>
    /\ gen' = [pc |-> "error"]
    /\ UNCHANGED <<runVars, sweepVars>>

\* FuzzerMain.cpp:248-293, part_001:1123-1206: the grid is built and the
\* threads are started; neither main looks at the cells of the grid
StartThreads ==
    /\ gen.pc = "loaded"
    /\ g_series # << >>
    /\ gen' = [pc |-> "spawned"]
    /\ \E combos \in MainGrids(sched), n \in 1..MaxWorkers :
         /\ g_combos' = combos
         /\ pnlTable' = PnlTable(sched, g_series, combos)
         /\ numThreads' = n
         /\ workers' = [w \in 0..(n - 1) |-> NewWorker]
         /\ g_results' = IF sched = "fuzz" THEN [k \in 1..Len(combos) |-> ZeroResult]
                         ELSE << >>
         /\ evalCount' = [k \in 1..Len(combos) |-> 0]
    /\ reporter' = [pc |-> "poll", done |-> 0, shownDone |-> -1, shownTop |-> << >>]
    /\ UNCHANGED <<sched, g_series, mutex, g_nextIdx, g_doneCount, runningTasks,
                   bestResults, finalTop, prevFinal>>
    /\ UNCHANGED runVars

MainNext == DataMissing \/ StartThreads \/ SweepNext

SpecMain == MainInit /\ [][MainNext]_vars

\* there is nothing to sweep: no tick, or no cell a worker would evaluate
NothingToSweep ==
    \/ g_series = << >>
    \/ g_combos # << >> /\ \A k \in 1..Total : InvalidCell(g_combos[k])

\* C18: a sweep over an empty price series, or over a grid with zero valid
\* cells, stops with an error before any thread is started and before any
\* backtest runs
C18_NothingToSweepStopsEarly ==
    (gen.pc # "off" /\ NothingToSweep) =>
        /\ gen.pc \in {"loaded", "error"}
        /\ workers = << >>
        /\ reporter.pc = "off"
        /\ \A k \in DOMAIN evalCount : evalCount[k] = 0


(***************************************************************************)
(* The mutex around the shared results                                     *)
(***************************************************************************)
\* both schedulers on their three-cell grids: every interleaving of up to
\* MaxWorkers workers with the reporter
SmallSweepInit == FairFuzzInit \/ GridRerunInit

SpecSmallSweep == SmallSweepInit /\ [][SweepNext]_vars

\* the step in which worker w writes g_results / bestResults: it leaves the
\* block that FuzzerMain.cpp:104-107 and part_001:1045-1059 guard
WorkerAccess(w) == workers[w].pc = "store" /\ workers'[w].pc = "count"

\* the step in which the progress thread or the monitor loop copies them
ReporterAccess ==
    reporter.pc \in {"snap_copy", "final_copy"} /\ reporter'.pc # reporter.pc

\* the step in which main of the grid search drains the queue
FinalAccess == reporter.pc = "join" /\ reporter'.pc = "finished"

\* a thread between its lock and its unlock holds the mutex, so no two
\* threads are inside an access at once
Exclusive ==
    /\ \A w \in WorkerIds : workers[w].pc = "store" => mutex = w
    /\ reporter.pc \in {"snap_copy", "final_copy"} => mutex = REPORTER

\* C19 as stated: every access to the shared results, the final report
\* included, is made by the thread that holds the mutex
C19_AllAccessUnderLock ==
    [][/\ \A w \in WorkerIds : WorkerAccess(w) => mutex = w
       /\ (ReporterAccess \/ FinalAccess) => mutex = REPORTER
       /\ (g_results' # g_results \/ bestResults' # bestResults) => mutex # FREE]_vars

\* C19 amended: every worker write and every read of a running reporter is
\* made by the holder of the mutex and no two accesses overlap; the final
\* report of the grid search drains the queue without the mutex, after every
\* worker thread has been joined
C19_LockedWhileWorkersRun ==
    [][/\ \A w \in WorkerIds : WorkerAccess(w) => mutex = w
       /\ ReporterAccess => mutex = REPORTER
       /\ FinalAccess => (mutex = FREE /\ AllReturned)
       /\ (g_results' # g_results \/ bestResults' # bestResults) =>
            (mutex # FREE \/ FinalAccess)
       /\ Exclusive
       /\ Exclusive']_vars

C19_Witness ==
    /\ reporter.pc = "snap_copy"
    /\ mutex = REPORTER
    /\ \E w \in WorkerIds : workers[w].pc = "lock"
    /\ \E w \in WorkerIds : workers[w].pc = "count"


(***************************************************************************)
(* The completion counter and the progress reports                         *)
(***************************************************************************)
RECURSIVE SumUpTo(_, _)
SumUpTo(f, n) == IF n = 0 THEN 0 ELSE f[n] + SumUpTo(f, n - 1)

\* backtests started so far, and those whose worker has not counted them yet
Started == SumUpTo(evalCount, Len(evalCount))
Uncounted == Cardinality({w \in WorkerIds : workers[w].pc \in {"lock", "store", "count"}})

\* C20: the completion counter only grows, by one per completed backtest, it
\* never exceeds the number of grid cells, and no progress report shows a
\* smaller done count than an earlier one
C20_ProgressMonotone ==
    [][/\ g_doneCount' >= g_doneCount
       /\ g_doneCount' <= g_doneCount + 1
       /\ g_doneCount' = g_doneCount + 1 =>
            \E w \in WorkerIds : workers[w].pc = "count" /\ workers'[w].pc = "fetch"
       /\ (g_doneCount + Uncounted = Started)'
       /\ g_doneCount' <= Total
       /\ reporter'.done >= reporter.done
       /\ reporter'.done <= g_doneCount'
       /\ reporter'.shownDone >= reporter.shownDone
       /\ reporter'.shownDone <= Total]_vars

C20_Witness ==
    /\ sched = "fuzz"
    /\ reporter.pc = "snap_copy"
    /\ reporter.shownDone >= 1
    /\ reporter.done > reporter.shownDone
    /\ g_doneCount > reporter.done


(***************************************************************************)
(* The order in which the fuzzer's cells are claimed                       *)
(***************************************************************************)
\* C21: the fetch-and-increment hands out the indices 0, 1, 2, ... in this
\* order, none skipped and none repeated: the claim made when the cursor
\* holds k returns k, and the claimed cells are exactly those below the cursor
C21_ClaimOrder ==
    [][sched = "fuzz" =>
         /\ g_nextIdx' \in {g_nextIdx, g_nextIdx + 1}
         /\ \A w \in WorkerIds :
              (workers[w].pc = "fetch" /\ workers'[w].pc # "fetch") =>
                  /\ g_nextIdx' = g_nextIdx + 1
                  /\ workers'[w].pc = "lock" =>
                       (g_nextIdx < Total /\ workers'[w].idx = g_nextIdx)
                  /\ workers'[w].pc = "returned" => g_nextIdx >= Total
         /\ \A k \in 1..Total : evalCount'[k] = IF k <= g_nextIdx' THEN 1 ELSE 0]_vars

\* the cell claimed second is stored while the cell claimed first is not
C21_Witness ==
    /\ sched = "fuzz"
    /\ g_nextIdx >= 2
    /\ g_results[1] = ZeroResult
    /\ g_results[2] # ZeroResult
    /\ \E w \in WorkerIds : workers[w].idx = 0 /\ workers[w].pc \in {"lock", "store"}


(***************************************************************************)
(* The bounded best-results queue of the grid search                       *)
(***************************************************************************)
\* the cells whose result a worker has pushed and merged
Merged == {k \in 1..Total :
             evalCount[k] = 1 /\ \A w \in WorkerIds :
                 ~(workers[w].pc \in {"lock", "store"} /\ workers[w].idx = k - 1)}

\* C22: whenever the result mutex is not held by a worker, bestResults holds
\* at most 10 entries: min(10, merged) results of merged cells, each once,
\* and no merged result left out has a higher pnl than one that is kept
C22_TopKBounded ==
    (sched = "grid" /\ reporter.pc # "finished") =>
        /\ QueueSize(bestResults) <= TOP_K
        /\ QueueSize(bestResults) = Min(TOP_K, Cardinality(Merged))
        /\ \A r \in BagToSet(bestResults) :
              /\ CopiesIn(r, bestResults) = 1
              /\ \E k \in Merged : r = AllResults[k]
        /\ \A k \in Merged :
              ~BagIn(AllResults[k], bestResults) =>
                  \A r \in BagToSet(bestResults) : AllResults[k].pnl <= r.pnl

\* eleven or more results were merged and one of lower pnl was dropped
C22_Witness ==
    /\ sched = "grid"
    /\ reporter.pc # "finished"
    /\ Cardinality(Merged) > TOP_K
    /\ QueueSize(bestResults) = TOP_K
    /\ \E k \in Merged :
          /\ ~BagIn(AllResults[k], bestResults)
          /\ \E r \in BagToSet(bestResults) : AllResults[k].pnl < r.pnl


(***************************************************************************)
(* Parameter sets with a non-positive window or waiting period             *)
(***************************************************************************)
\* the cell a grid-search worker is about to look at, 0-based; Total or more
\* when its workload is used up
NextCell(w) == WorkloadIndex(w, workers[w].pos, numThreads)

\* C23: sets with short_window <= 0 or waiting_period <= 0 are filtered out
\* before scheduling: the grid handed to the threads holds none, no worker
\* comes upon one in its workload, and none is back-tested
C23_InvalidNeverDispatched ==
    (sched \in {"fuzz", "grid"} /\ workers # << >>) =>
        /\ \A k \in 1..Total : ~InvalidCell(g_combos[k])
        /\ \A w \in WorkerIds :
              (sched = "grid" /\ workers[w].pc = "fetch" /\ NextCell(w) < Total) =>
                  ~InvalidCell(g_combos[NextCell(w) + 1])
        /\ \A k \in 1..Total : evalCount[k] > 0 => ~InvalidCell(g_combos[k])


(***************************************************************************)
(* The final close                                                         *)
(***************************************************************************)
\* the step in which runBacktest leaves the time loop and returns
IsFinalClose == pc = "loop" /\ pc' = "done"

\* C24: after the last tick a long position is sold at the last bid and a
\* short position is bought back at the last ask, in both cases net of the
\* fee of 0.002 of that notional, a flat run books nothing, and the pnl
\* returned is the cash after this close
C24_FinalClose ==
    [][IsFinalClose =>
         LET last == priceData[nrows]
             pos == run.position
         IN  /\ pos > 0 =>
                  /\ run'.cash = run.cash + last.bid * pos * FEE_DENOM
                                          - last.bid * pos * FEES
                  /\ KeepsFees(variant) =>
                        run'.total_fees = run.total_fees + last.bid * pos * FEES
             /\ pos < 0 =>
                  /\ run'.cash = run.cash - last.ask * (-pos) * FEE_DENOM
                                          - last.ask * (-pos) * FEES
                  /\ KeepsFees(variant) =>
                        run'.total_fees = run.total_fees + last.ask * (-pos) * FEES
             /\ pos = 0 => run'.cash = run.cash /\ run'.total_fees = run.total_fees
             /\ variant \in {"lib", "v1"} =>
                  runBacktest(variant, params, priceData, FALSE).cash = run'.cash]_vars

\* a run of the spread strategy has closed a short position left by its last tick
C24_Witness ==
    /\ variant \in {"lib", "v1"}
    /\ pc = "done"
    /\ nrows >= 3
    /\ run.filled < 0
    /\ run.order_quantity = -POSITION_SIZE
    /\ run.cash # 0


(***************************************************************************)
(* The decision checks of the spread strategy                              *)
(***************************************************************************)
\* the three copies of the spread strategy
SpreadStrategy(v) == v \in {"lib", "v1", "st"}

\* runs of the spread strategy only
StrategyInit == Init /\ SpreadStrategy(variant)

SpecStrategy == StrategyInit /\ [][Next]_vars

\* the row the tick step under way reads
ThisTick == priceData'[run.i + 1]

\* C25: on a high-spread tick entered with a position the order emitted is
\* exactly minus that position, it is filled, and in_position is false
\* afterwards; the position is 0 at the end of every high-spread tick
C25_ForcedClose ==
    [][(SpreadStrategy(variant) /\ IsTickStep /\ InHighSpread(ThisTick)) =>
         /\ run'.position = 0
         /\ run.position # 0 =>
              /\ run'.order_quantity = -run.position
              /\ run'.filled = -run.position
              /\ ~run'.in_position
              /\ ~run'.position_is_long]_vars

\* a short position has been closed by a high-spread tick on which the
\* short average could not have turned far enough to close it
C25_Witness ==
    /\ SpreadStrategy(variant)
    /\ pc = "loop"
    /\ run.i >= 3
    /\ InHighSpread(priceData[run.i])
    /\ params.ma_turn_threshold = 20
    /\ run.filled = POSITION_SIZE
    /\ run.order_quantity = POSITION_SIZE
    /\ run.position = 0


\* the mid price of the tick under way, on the scale of the window sum
ThisMid == Mid2(ThisTick) * params.short_window

\* C26: an order is emitted from a flat position only by the entry check:
\* the run was waiting for a signal, at least waiting_period ticks lie
\* between high_spread_exit_index and this tick, the tick is not high-spread,
\* its short average is defined and differs from the baseline taken at the
\* exit by at least hs_exit_change_threshold.  The order is +POSITION_SIZE
\* for a mid price above the average and -POSITION_SIZE for one below it,
\* current_position_extreme becomes the average and waiting_for_signal is
\* cleared.  With a position open the only order is the close.
C26_EntryOrder ==
    [][(SpreadStrategy(variant) /\ IsTickStep) =>
         /\ run.position # 0 => run'.order_quantity \in {0, -run.position}
         /\ (run.position = 0 /\ run'.order_quantity # 0) =>
              /\ run.waiting_for_signal
              /\ run.i - run.high_spread_exit_index >= params.waiting_period
              /\ ~InHighSpread(ThisTick)
              /\ run'.short_avg # NaN
              /\ Abs(run'.short_avg - run.last_high_spread_exit_short_avg)
                    >= params.hs_exit_change_threshold * Scale(params)
              /\ ThisMid # run'.short_avg
              /\ run'.order_quantity =
                    IF ThisMid > run'.short_avg THEN POSITION_SIZE ELSE -POSITION_SIZE
              /\ run'.position_is_long = (ThisMid > run'.short_avg)
              /\ run'.in_position
              /\ run'.current_position_extreme = run'.short_avg
              /\ ~run'.waiting_for_signal
              /\ run'.high_spread_exit_index = run.high_spread_exit_index]_vars

\* a long entry has just been made more than waiting_period ticks after the
\* recorded exit
C26_Witness ==
    /\ SpreadStrategy(variant)
    /\ pc = "loop"
    /\ run.i >= 3
    /\ run.order_quantity = POSITION_SIZE
    /\ run.position = POSITION_SIZE
    /\ run.in_position
    /\ run.position_is_long
    /\ ~run.waiting_for_signal
    /\ run.current_position_extreme = run.short_avg
    /\ (run.i - 1) - run.high_spread_exit_index > params.waiting_period


\* the extreme of the short average once this tick's average is counted in
ExtremeWith(r, short_avg) ==
    IF r.position_is_long
    THEN IF short_avg > r.current_position_extreme THEN short_avg
         ELSE r.current_position_extreme
    ELSE IF short_avg < r.current_position_extreme THEN short_avg
         ELSE r.current_position_extreme

\* the short average has come back from the extreme by ma_turn_threshold
Turned(r, p, short_avg) ==
    IF r.position_is_long
    THEN ExtremeWith(r, short_avg) - short_avg >= p.ma_turn_threshold * Scale(p)
    ELSE short_avg - ExtremeWith(r, short_avg) >= p.ma_turn_threshold * Scale(p)

\* C27: current_position_extreme starts as the short average of the entry
\* tick and on every later tick in the position becomes the larger (long) or
\* the smaller (short) of itself and the tick's average, so it is the
\* maximum (minimum) average since entry; on the first tick on which the
\* average lies ma_turn_threshold or more below (above) it the position is
\* closed with the order -position and in_position becomes false, and on a
\* tick without such a turn that is not high-spread the position is kept
C27_TurnExit ==
    [][(SpreadStrategy(variant) /\ IsTickStep) =>
         /\ (~run.in_position /\ run'.in_position) =>
               run'.current_position_extreme = run'.short_avg
         /\ run.in_position =>
              /\ run'.short_avg # NaN
              /\ run.position = (IF run.position_is_long THEN POSITION_SIZE
                                 ELSE -POSITION_SIZE)
              /\ Turned(run, params, run'.short_avg) =>
                   /\ run'.order_quantity = -run.position
                   /\ run'.filled = -run.position
                   /\ run'.position = 0
                   /\ ~run'.in_position
              /\ (~Turned(run, params, run'.short_avg) /\ ~InHighSpread(ThisTick)) =>
                   /\ run'.order_quantity = 0
                   /\ run'.in_position
                   /\ run'.position = run.position
                   /\ run'.position_is_long = run.position_is_long
                   /\ run'.current_position_extreme =
                         ExtremeWith(run, run'.short_avg)]_vars

\* a long position has just been closed on a tick that is not high-spread
C27_Witness ==
    /\ SpreadStrategy(variant)
    /\ pc = "loop"
    /\ run.i >= 3
    /\ ~InHighSpread(priceData[run.i])
    /\ run.order_quantity = -POSITION_SIZE
    /\ run.filled = -POSITION_SIZE
    /\ run.position = 0
    /\ ~run.in_position


\* the tick before the one under way was high-spread and this one is not
SpreadTransition ==
    /\ run.i >= 1
    /\ InHighSpread(priceData[run.i])
    /\ ~InHighSpread(ThisTick)

\* C28: on every tick that is not high-spread and follows a high-spread
\* tick the exit index is recorded, the baseline becomes the tick's short
\* average, or its mid price while the average is undefined, and
\* waiting_for_signal is true afterwards, whether or not the short window
\* has filled
C28_ExitRecorded ==
    [][(SpreadStrategy(variant) /\ IsTickStep /\ SpreadTransition) =>
         /\ run'.high_spread_exit_index \in {run.i - 1, run.i}
         /\ run'.last_high_spread_exit_short_avg =
               IF run'.short_avg # NaN THEN run'.short_avg ELSE ThisMid
         /\ run'.waiting_for_signal]_vars


\* the 0-based indices, up to the tick under way, of the ticks that are not
\* high-spread and follow a high-spread tick
TransitionTicks ==
    {T \in 1..run.i : InHighSpread(priceData'[T]) /\ ~InHighSpread(priceData'[T + 1])}

\* the tick under way comes waiting_period ticks after the last transition
\* and no tick since has been high-spread
WaitJustOver ==
    /\ TransitionTicks # {}
    /\ \A T \in TransitionTicks : T <= run.i - params.waiting_period
    /\ run.i - params.waiting_period \in TransitionTicks
    /\ ~InHighSpread(ThisTick)

\* C29: an entry is filled only on a tick that lies at least waiting_period
\* ticks after the last tick on which a change from high to low spread is
\* seen, and it is filled on the tick exactly waiting_period after it when
\* the short average has moved from the baseline by the threshold and the
\* mid price is off the average
C29_WaitAfterTransition ==
    [][(SpreadStrategy(variant) /\ IsTickStep) =>
         /\ (run.position = 0 /\ run'.filled # 0) =>
              /\ TransitionTicks # {}
              /\ \A T \in TransitionTicks : run.i - T >= params.waiting_period
         /\ (/\ WaitJustOver
             /\ run'.short_avg # NaN
             /\ Abs(run'.short_avg - run.last_high_spread_exit_short_avg)
                   >= params.hs_exit_change_threshold * Scale(params)
             /\ ThisMid # run'.short_avg) =>
              /\ run.position = 0
              /\ run'.filled # 0]_vars


\* C30: on a tick whose short average is undefined no order is emitted and
\* in_position, waiting_for_signal, high_spread_exit_index, the baseline and
\* current_position_extreme keep their values
C30_UndefinedAverageNoOp ==
    [][(SpreadStrategy(variant) /\ IsTickStep /\ run'.short_avg = NaN) =>
         /\ run'.order_quantity = 0
         /\ run'.filled = 0
         /\ run'.position = run.position
         /\ run'.in_position = run.in_position
         /\ run'.waiting_for_signal = run.waiting_for_signal
         /\ run'.high_spread_exit_index = run.high_spread_exit_index
         /\ run'.last_high_spread_exit_short_avg = run.last_high_spread_exit_short_avg
         /\ run'.current_position_extreme = run.current_position_extreme]_vars


\* C31: the short average the checks of tick i read is the mean of the mid
\* prices of ticks i - short_window + 1 .. i, this tick's included, and is
\* undefined exactly while i < short_window - 1
C31_AverageIncludesThisTick ==
    [][(SpreadStrategy(variant) /\ IsTickStep) =>
         /\ run'.midPrices = Append(run.midPrices, Mid2(ThisTick))
         /\ run'.short_avg =
               computeRollingAverage(run'.midPrices, run.i, params.short_window)
         /\ (run'.short_avg = NaN) = (run.i < params.short_window - 1)]_vars


WrittenSlots == {k \in 1..Total : g_results[k] = AllResults[k]}

\* the progress thread has read a counter that is not below the total
SawAllDone == reporter.pc \in {"final", "final_copy", "finished"}

\* C33: the completion counter of the fuzzer never exceeds the number of
\* result slots written, and once the progress thread has read a counter of
\* at least the total every slot holds the result of its cell, so the final
\* copy is made of results only
C33_CounterBehindSlots ==
    sched = "fuzz" =>
        /\ g_doneCount <= Cardinality(WrittenSlots)
        /\ SawAllDone => WrittenSlots = 1..Total
        /\ reporter.pc = "finished" =>
             \A n \in 1..Len(finalTop) : \E k \in 1..Total : finalTop[n] = AllResults[k]

\* the progress thread is taking its final copy while the last worker has
\* not returned yet
C33_Witness ==
    /\ sched = "fuzz"
    /\ reporter.pc = "final_copy"
    /\ g_doneCount = Total
    /\ \E w \in WorkerIds : workers[w].pc = "fetch"


(***************************************************************************)
(* The parameter grid of the grid search: part_001:609-612 and 1143-1176   *)
(***************************************************************************)
BASE_SHORT_WINDOW == 80
BASE_WAITING_PERIOD == 80
BASE_HS_EXIT_CHANGE_THRESHOLD == 200000
BASE_MA_TURN_THRESHOLD == 900000

\* the loop bounds of part_001:1152: i = -15 .. 15
GRID_FROM == -15
GRID_TO == 15
GridSteps == [n \in 1..(GRID_TO - GRID_FROM + 1) |-> GRID_FROM + n - 1]

\* part_001:1155-1156: static_cast<int>(BASE * multiplier), in loop order
GridIntValues(baseVal) ==
    [n \in DOMAIN GridSteps |-> TruncHundredths(baseVal * (100 + GridSteps[n]))]

\* part_001:1157-1158: BASE * multiplier, in loop order
GridDoubleValues(baseVal) ==
    [n \in DOMAIN GridSteps |-> (baseVal * (100 + GridSteps[n])) \div 100]

GridGenInit ==
    /\ NoRun
    /\ NoSweep
    /\ prevFinal = NoFinal
    /\ gen = [pc |-> "grid_vals", baseSW |-> BASE_SHORT_WINDOW,
              baseWP |-> BASE_WAITING_PERIOD,
              baseHSX |-> BASE_HS_EXIT_CHANGE_THRESHOLD,
              baseMAT |-> BASE_MA_TURN_THRESHOLD]

\* part_001:1152-1159: the four value lists
GridValues ==
    /\ gen.pc = "grid_vals"
    /\ gen' = [pc |-> "grid_combos",
               baseSW |-> gen.baseSW, baseWP |-> gen.baseWP,
               baseHSX |-> gen.baseHSX, baseMAT |-> gen.baseMAT,
               sw_vals |-> GridIntValues(gen.baseSW),
               wp_vals |-> GridIntValues(gen.baseWP),
               hsx_vals |-> GridDoubleValues(gen.baseHSX),
               mat_vals |-> GridDoubleValues(gen.baseMAT),
               size |-> 0]
    /\ UNCHANGED <<runVars, sweepVars>>

\* part_001:1162-1174: one iteration of the innermost loop
PushParamSet ==
    /\ gen.pc = "grid_combos"
    /\ gen.size < LoopCount(gen)
    /\ gen' = [gen EXCEPT !.size = gen.size + 1]
    /\ UNCHANGED <<runVars, sweepVars>>

\* part_001:1176: totalTasks = allParamSets.size()
CountParamSets ==
    /\ gen.pc = "grid_combos"
    /\ gen.size = LoopCount(gen)
    /\ gen' = [gen EXCEPT !.pc = "grid_built"]
    /\ UNCHANGED <<runVars, sweepVars>>

GridGenNext == GridValues \/ PushParamSet \/ CountParamSets

\* the generators of both programs
AllGenInit == GenInit \/ GridGenInit

AllGenNext == GenNext \/ GridGenNext

SpecAllGen == AllGenInit /\ [][AllGenNext]_vars

\* the percent steps of the generator whose lists gen holds
StepsOf(g) == IF g.pc \in {"grid_combos", "grid_built"} THEN GridSteps ELSE FuzzSteps

\* base * (100 + i) / 100 rounded to the nearest whole number, at least 1
RoundedCandidate(baseVal, i) ==
    LET iv == RoundHundredths(baseVal * (100 + i))
    IN  IF iv < 1 THEN 1 ELSE iv

Ascending(vals) == \A n \in 1..(Len(vals) - 1) : vals[n] <= vals[n + 1]

\* C34: every integer candidate is base * (100 + i) / 100 rounded to the
\* nearest whole number and raised to 1, every double candidate is positive
\* and is base * (100 + i) / 100 when that is positive, every candidate list
\* is ascending, and every parameter set generated has short_window >= 1,
\* waiting_period >= 1 and positive thresholds
C34_CandidateRounding ==
    gen.pc \in {"combos", "built", "grid_combos", "grid_built"} =>
        LET steps == StepsOf(gen)
        IN  /\ \A n \in DOMAIN steps :
                 /\ gen.sw_vals[n] = RoundedCandidate(gen.baseSW, steps[n])
                 /\ gen.wp_vals[n] = RoundedCandidate(gen.baseWP, steps[n])
                 /\ gen.hsx_vals[n] > 0
                 /\ gen.mat_vals[n] > 0
                 /\ gen.baseHSX > 0 =>
                       gen.hsx_vals[n] = (gen.baseHSX * (100 + steps[n])) \div 100
                 /\ gen.baseMAT > 0 =>
                       gen.mat_vals[n] = (gen.baseMAT * (100 + steps[n])) \div 100
            /\ Ascending(gen.sw_vals) /\ Ascending(gen.wp_vals)
            /\ Ascending(gen.hsx_vals) /\ Ascending(gen.mat_vals)
            /\ gen.size > 0 =>
                 LET c == ComboAt(gen, gen.size - 1)
                 IN  /\ c.short_window >= 1
                     /\ c.waiting_period >= 1
                     /\ c.hs_exit_change_threshold > 0
                     /\ c.ma_turn_threshold > 0


\* C35: at the end of every tick in_position is true exactly when the
\* position is not 0, the position is -POSITION_SIZE, 0 or +POSITION_SIZE,
\* position_is_long is true exactly when it is +POSITION_SIZE, and every
\* order that closes a position is filled in full
C35_FlagsAgreeWithLedger ==
    [][(SpreadStrategy(variant) /\ IsTickStep) =>
         /\ run'.in_position = (run'.position # 0)
         /\ run'.position \in {-POSITION_SIZE, 0, POSITION_SIZE}
         /\ run'.position_is_long = (run'.position = POSITION_SIZE)
         /\ (run.position # 0 /\ run'.order_quantity # 0) =>
              /\ run'.order_quantity = -run.position
              /\ run'.filled = run'.order_quantity
              /\ run'.position = 0]_vars

\* a short position has been opened and is still held a tick later
C35_Witness ==
    /\ SpreadStrategy(variant)
    /\ pc = "loop"
    /\ run.i >= 4
    /\ run.position = -POSITION_SIZE
    /\ run.in_position
    /\ ~run.position_is_long
    /\ run.order_quantity = 0


(***************************************************************************)
(* The forced close written the other way                                  *)
(***************************************************************************)
\* the tick of Backtester.cpp with check 3 as an unconditional last check
LibTickForcedLast(p, r, t, last) ==
    LET m2 == Mid2(t)
        hs == InHighSpread(t)
        s_avg == IF Len(r.midPrices) >= p.short_window
                 THEN mean_of_last_N(r.midPrices, p.short_window)
                 ELSE NaN
        r0 == [r EXCEPT !.order_quantity = 0, !.short_avg = s_avg]
        r1 == TurnExit(r0, p, s_avg)
        r2 == IF r.i > 0 /\ JustExitedHS(last, hs)
              THEN RecordExit(r1, p, r.i - 1, s_avg, m2)
              ELSE IF EntryGuard(r1, p, r.i, hs)
                   THEN EntryBody(r1, p, s_avg, m2)
                   ELSE r1
        r3 == IF ForcedCloseGuard(r2, hs) THEN CloseState(r2) ELSE r2
        r4 == ApplyOrder("lib", r3, t)
    IN  [r4 EXCEPT !.midPrices = Append(r.midPrices, m2),
                   !.prev_in_high_spread = hs,
                   !.i = r.i + 1]

\* the tick of part_001 with check 3 as an else-if after checks 1 and 2
V1TickChained(p, r, t, last) ==
    LET m2 == Mid2(t)
        hs == InHighSpread(t)
        mids == Append(r.midPrices, m2)
        short_avg == computeRollingAverage(mids, r.i, p.short_window)
        r0 == [r EXCEPT !.order_quantity = 0, !.short_avg = short_avg,
                        !.filled = 0, !.midPrices = mids, !.i = r.i + 1]
        r1 == TurnExit(r0, p, short_avg)
        r2 == IF JustExitedHS(last, hs)
              THEN RecordExit(r1, p, r.i, short_avg, m2)
              ELSE r1
        r3 == IF EntryGuard(r2, p, r.i, hs) THEN EntryBody(r2, p, short_avg, m2) ELSE r2
        r4 == IF /\ ~JustExitedHS(last, hs)
                 /\ ~EntryGuard(r2, p, r.i, hs)
                 /\ ForcedCloseGuard(r3, hs)
              THEN CloseState(r3) ELSE r3
        r5 == ApplyOrder("v1", r4, t)
    IN  IF short_avg = NaN THEN r0
        ELSE [r5 EXCEPT !.prev_in_high_spread = hs]

\* check 1 or the guard of check 2 holds on the tick under way
EarlierCheckFires ==
    \/ run.i > 0 /\ JustExitedHS(LastFlag(variant, run, prev_in_high_spread),
                                 InHighSpread(ThisTick))
    \/ run.waiting_for_signal /\ run.position = 0 /\ ~InHighSpread(ThisTick)
          /\ run.i - run.high_spread_exit_index >= params.waiting_period

\* C36: the forced close never fires on a tick on which the exit detection
\* or the entry check fires, and every tick of Backtester.cpp ends in the
\* same state with the same order when check 3 is an unconditional last
\* check, as does every tick of part_001 when check 3 is an else-if
C36_ForcedCloseEitherWay ==
    [][(variant \in {"lib", "v1"} /\ IsTickStep) =>
         /\ EarlierCheckFires => ~(InHighSpread(ThisTick) /\ run.position # 0)
         /\ variant = "lib" =>
               run' = LibTickForcedLast(params, run, ThisTick, run.prev_in_high_spread)
         /\ variant = "v1" =>
               run' = V1TickChained(params, run, ThisTick, run.prev_in_high_spread)]_vars

\* a tick has closed a position by force while the run was not waiting
C36_Witness ==
    /\ variant \in {"lib", "v1"}
    /\ pc = "loop"
    /\ run.i >= 3
    /\ InHighSpread(priceData[run.i])
    /\ ~InHighSpread(priceData[run.i - 1])
    /\ params.ma_turn_threshold = 20
    /\ run.filled = -POSITION_SIZE
    /\ run.position = 0
    /\ ~run.waiting_for_signal


\* check 1 fires on the tick under way
DetectedNow ==
    /\ variant = "lib" => run.i > 0
    /\ JustExitedHS(LastFlag(variant, run, prev_in_high_spread), InHighSpread(ThisTick))

\* the entry check of the tick under way is reached and passes its threshold
EntryCheckPasses ==
    /\ ~DetectedNow
    /\ run.waiting_for_signal
    /\ run.i - run.high_spread_exit_index >= params.waiting_period
    /\ run.position = 0
    /\ ~InHighSpread(ThisTick)
    /\ run'.short_avg # NaN
    /\ Abs(run'.short_avg - run.last_high_spread_exit_short_avg)
          >= params.hs_exit_change_threshold * Scale(params)

\* C37: when the entry check passes its threshold with the mid price equal
\* to the short average, no order is emitted and in_position stays false
\* but waiting_for_signal is cleared; and a flat run that is not waiting
\* emits no order on a tick that detects no exit from high spread
C37_EqualMidDisarms ==
    [][(SpreadStrategy(variant) /\ IsTickStep) =>
         /\ (EntryCheckPasses /\ ThisMid = run'.short_avg) =>
              /\ run'.order_quantity = 0
              /\ run'.position = 0
              /\ ~run'.in_position
              /\ ~run'.waiting_for_signal
         /\ (~run.waiting_for_signal /\ run.position = 0 /\ ~DetectedNow) =>
              /\ run'.order_quantity = 0
              /\ ~run'.waiting_for_signal]_vars

\* a run that never traded has lost its signal on a tick whose mid price
\* equals the average
C37_Witness ==
    /\ SpreadStrategy(variant)
    /\ pc = "loop"
    /\ run.i >= 2
    /\ run.high_spread_exit_index >= 0
    /\ ~run.waiting_for_signal
    /\ ~run.in_position
    /\ run.cash = 0
    /\ run.short_avg = Mid2(priceData[run.i]) * params.short_window
    /\ Abs(run.short_avg - run.last_high_spread_exit_short_avg)
          >= params.hs_exit_change_threshold * Scale(params)


(***************************************************************************)
(* Entries and detected exits from high spread, counted along a run        *)
(***************************************************************************)
\* check 1 fires on tick t, read in state r with previous-tick flag last
Detects(v, p, r, t, last) ==
    /\ v = "lib" => r.i > 0
    /\ v = "v1" => computeRollingAverage(Append(r.midPrices, Mid2(t)), r.i,
                                         p.short_window) # NaN
    /\ JustExitedHS(last, InHighSpread(t))

\* the tally of a run over series from tick k on: entries, detections, the
\* detections since the last entry, and whether every entry so far found
\* at least one detection since the entry before it
RECURSIVE Tally(_, _, _, _, _, _, _)
Tally(v, p, r, series, k, last, c) ==
    IF k > Len(series) THEN c
    ELSE LET t == series[k]
             s == TickStep(v, p, r, t, last)
             d == IF Detects(v, p, r, t, last) THEN 1 ELSE 0
             entry == r.position = 0 /\ s.run.position # 0
             c1 == [entries |-> c.entries + (IF entry THEN 1 ELSE 0),
                    detections |-> c.detections + d,
                    pending |-> IF entry THEN 0 ELSE c.pending + d,
                    ok |-> c.ok /\ (entry => c.pending > 0 /\ d = 0)]
         IN  Tally(v, p, s.run, series, k + 1, s.flag, c1)

RunTally ==
    Tally(variant, params, InitRun, priceData, 1, FALSE,
          [entries |-> 0, detections |-> 0, pending |-> 0, ok |-> TRUE])

\* C38: along every run each entry comes after a detected exit from high
\* spread that is later than the entry before it, so no entry precedes the
\* first detection and the entries never outnumber the detections
C38_EntriesFollowDetections ==
    (variant \in {"lib", "v1"} /\ pc = "loop") =>
        /\ RunTally.ok
        /\ RunTally.entries <= RunTally.detections

\* a run has entered once, on its second detected exit from high spread
C38_Witness ==
    /\ variant \in {"lib", "v1"}
    /\ pc = "loop"
    /\ RunTally.entries = 1
    /\ RunTally.detections = 2
    /\ RunTally.pending = 0


\* C39: every entry of a top-3 list printed while the sweep is running is
\* the result of a cell whose backtest has completed and been stored
C39_SnapshotShowsResultsOnly ==
    sched = "fuzz" =>
        \A n \in 1..Len(reporter.shownTop) :
            \E k \in WrittenSlots : reporter.shownTop[n] = AllResults[k]
====
